---- MODULE Spec2Model ----
(***************************************************************************)
(* Verification model of seamagency/socially: the SocialManager            *)
(* dispatcher (share) and the platform adapters' post operations.          *)
(*                                                                         *)
(* SpecShare   : SocialManager built from a configuration, then share()    *)
(*               calls over adapters whose post may return or throw.       *)
(* SpecYouTube : one YouTube instance, one post() call, every network      *)
(*               call answered nondeterministically by the upstream.       *)
(* SpecPost    : the same for an instance of any adapter that holds an     *)
(*               accessToken field.                                        *)
(***************************************************************************)
EXTENDS Integers, Sequences, FiniteSets, TLC

VARIABLES
    \* ---- SocialManager ----
    config,            \* keys of the SocialConfig that have a value
    platforms,         \* SocialManager.platforms: Map keys in insertion order
    sharePc,           \* position of share(): "idle", "loop", "await", "returned"
    platformsArg,      \* share()'s optional platforms argument
    shareContent,      \* share()'s content argument
    targetPlatforms,   \* local of share()
    idx,               \* position of the for..of loop in targetPlatforms
    results,           \* local of share()
    postLog,           \* every adapter.post invocation share() made, with its outcome
    returned,          \* value share() resolved with
    \* ---- one adapter instance ----
    adapter,           \* name of the adapter under call
    accessToken,       \* this.accessToken (Twitter: the OAuth 1.0a token)
    refreshToken,      \* this.refreshToken
    anchor,            \* identity anchor: accountId, pageId, boardId, subreddit, userId, authorId
    content,           \* argument of post()
    pc,                \* position inside post()
    net,               \* requests issued during the post() call, in order (of a
                       \* poll loop, the first poll; `polls` counts them all)
    resps,             \* responses received, in order (a poll's 200 answer is
                       \* kept in `status` instead)
    ret,               \* PostResult post() resolved with
    depth,             \* number of recursive this.post(content) re-entries
    status,            \* local `status` of a poll loop
    attempts,          \* local `attempts` of a poll loop
    polls,             \* status polls issued during the post() call
    locals,            \* other locals of post() that live across an await
    secondCall,        \* whether an earlier call on this instance has returned
    lap                \* flips each time a loop of post() goes round once more
                       \* after the counters above have stopped counting

shareVars == <<config, platforms, sharePc, platformsArg, shareContent,
               targetPlatforms, idx, results, postLog, returned>>
postVars  == <<adapter, accessToken, refreshToken, anchor, content, pc, net,
               resps, ret, depth, status, attempts, polls, locals, secondCall, lap>>
pollVars  == <<status, attempts, polls>>
vars == <<config, platforms, sharePc, platformsArg, shareContent,
          targetPlatforms, idx, results, postLog, returned,
          adapter, accessToken, refreshToken, anchor, content, pc, net,
          resps, ret, depth, status, attempts, polls, locals, secondCall, lap>>

Undefined == "undefined"

(***************************************************************************)
(* Bounds                                                                  *)
(***************************************************************************)
MaxConfigured == 2     \* at most this many keys present in the SocialConfig
MaxTargets == 2        \* longest explicit platforms argument
MaxRetries == 3        \* cap on recursive re-entries of post()

(***************************************************************************)
(* types.ts                                                                *)
(***************************************************************************)
PostResult(p, s, id, e) == [platform |-> p, success |-> s, postId |-> id, error |-> e]

NoResult == PostResult(Undefined, FALSE, Undefined, Undefined)

(***************************************************************************)
(* SocialManager                                                           *)
(***************************************************************************)
\* The order of the `if (config.x)` statements of the constructor.
ConstructorOrder ==
    <<"facebook", "instagram", "twitter", "linkedin", "youtube", "tiktok",
      "pinterest", "reddit", "threads", "discord", "slack", "telegram">>

PlatformNames == {ConstructorOrder[i] : i \in 1..Len(ConstructorOrder)}

InSeq(s, x) == \E i \in 1..Len(s) : s[i] = x

RECURSIVE ConstructReversed(_, _)
ConstructReversed(cfg, i) ==
    IF i > Len(ConstructorOrder) THEN <<>>
    ELSE IF ConstructorOrder[i] \in cfg
         THEN ConstructReversed(cfg, i + 1) \o <<ConstructorOrder[i]>>
         ELSE ConstructReversed(cfg, i + 1)

ConstructSkipsLast(cfg, i) ==
    SelectSeq(ConstructorOrder, LAMBDA p : p \in cfg /\ p # "telegram")

\* constructor: platforms.set(key, adapter) for each configured key, in order.
RECURSIVE Construct(_, _)
Construct(cfg, i) ==
    IF i > Len(ConstructorOrder) THEN <<>>
    ELSE IF ConstructorOrder[i] \in cfg
         THEN <<ConstructorOrder[i]>> \o Construct(cfg, i + 1)
         ELSE Construct(cfg, i + 1)

\* this.platforms.has(p)
Has(reg, p) == InSeq(reg, p)

\* getPlatform(name): the adapter stored under the key, identified by its name.
getPlatform(reg, name) == IF Has(reg, name) THEN name ELSE Undefined

RECURSIVE FilterUnique(_, _)
FilterUnique(list, reg) ==
    IF list = <<>> THEN <<>>
    ELSE LET rest == FilterUnique(Tail(list), reg)
         IN  IF Has(reg, Head(list)) /\ \A k \in 1..Len(rest) : rest[k] # Head(list)
             THEN <<Head(list)>> \o rest
             ELSE rest

FilterAll(list, reg) == list

\* platforms.filter(p => this.platforms.has(p))
RECURSIVE Filter(_, _)
Filter(list, reg) ==
    IF list = <<>> THEN <<>>
    ELSE IF Has(reg, Head(list))
         THEN <<Head(list)>> \o Filter(Tail(list), reg)
         ELSE Filter(Tail(list), reg)

\* share()'s optional argument: omitted, or an array (an empty array is truthy)
Omitted == [given |-> FALSE, list |-> <<>>]
Given(list) == [given |-> TRUE, list |-> list]

\* const targetPlatforms = platforms ? platforms.filter(...) : Array.from(keys())
TargetPlatforms(arg, reg) ==
    IF arg.given THEN Filter(arg.list, reg) ELSE reg

\* the catch block of share(): the failure result pushed for a throwing post
CaughtDropName(name, error) == PostResult(Undefined, FALSE, Undefined, error)

Caught(name, error) == PostResult(name, FALSE, Undefined, error)

\* What an adapter's post(content) can do, seen from share(): resolve with a
\* PostResult or reject with an error.
Returns(r) == [kind |-> "return", result |-> r, thrown |-> Undefined]
Throws(e)  == [kind |-> "throw", result |-> NoResult, thrown |-> e]

PostOutcomes(name) ==
    { Returns(PostResult(name, TRUE, "id1", Undefined)),
      Returns(PostResult(name, FALSE, Undefined, "upstream rejected")),
      Throws("API Error") }

PushedAfterFailure(name, outcome) ==
    IF \E k \in 1..Len(results) : ~results[k].success
    THEN PostResult(name, FALSE, Undefined, "earlier target failed")
    ELSE IF outcome.kind = "return" THEN outcome.result
    ELSE PostResult(name, FALSE, Undefined, outcome.thrown)

\* result pushed for one settled post
Pushed(name, outcome) ==
    IF outcome.kind = "return" THEN outcome.result
    ELSE Caught(name, outcome.thrown)

\* A media locator: a public URL or a filesystem path, with its file extension.
Loc(isUrl, ext) == [http |-> isUrl, ext |-> ext]

ShareContents ==
    { [text |-> "hi", media |-> <<>>],
      [text |-> "Hello", media |-> <<Loc(TRUE, "jpg")>>] }

Configs == {c \in SUBSET PlatformNames : Cardinality(c) <= MaxConfigured}

RECURSIVE SeqsUpTo(_, _)
SeqsUpTo(S, n) ==
    IF n = 0 THEN {<<>>}
    ELSE LET shorter == SeqsUpTo(S, n - 1)
         IN  shorter \cup {Append(s, x) : s \in {t \in shorter : Len(t) = n - 1}, x \in S}

\* Names an explicit platforms argument is drawn from: every configured key,
\* one platform the configuration lacks, and a name that is no platform.
FirstUnconfigured(cfg) ==
    LET missing == {i \in 1..Len(ConstructorOrder) : ConstructorOrder[i] \notin cfg}
    IN  {ConstructorOrder[i] : i \in {j \in missing : \A k \in missing : j <= k}}

TargetNames(cfg) == cfg \cup FirstUnconfigured(cfg) \cup {"unknownPlatform"}

\* Locals of the call kept across awaits: the operation called (post, or
\* Instagram's postStory), the container/creation/media id of the job, a
\* loop index, collected media ids, Facebook's page token and page id, and
\* the channelId argument of Slack's post.
NoLocals ==
    [op |-> "post", job |-> Undefined, i |-> 1, ids |-> <<>>,
     pageToken |-> Undefined, pageId |-> Undefined, channel |-> Undefined]

PostIdle ==
    /\ adapter = Undefined
    /\ accessToken = Undefined
    /\ refreshToken = Undefined
    /\ anchor = Undefined
    /\ content = [text |-> Undefined, media |-> <<>>]
    /\ pc = "idle"
    /\ net = <<>>
    /\ resps = <<>>
    /\ ret = NoResult
    /\ depth = 0
    /\ status = Undefined
    /\ attempts = 0
    /\ polls = 0
    /\ locals = NoLocals
    /\ secondCall = FALSE
    /\ lap = FALSE

InitShare ==
    /\ config \in Configs
    /\ platforms = Construct(config, 1)
    /\ sharePc = "idle"
    /\ platformsArg = Omitted
    /\ shareContent = [text |-> Undefined, media |-> <<>>]
    /\ targetPlatforms = <<>>
    /\ idx = 1
    /\ results = <<>>
    /\ postLog = <<>>
    /\ returned = <<>>
    /\ PostIdle

\* share(content, platforms?) up to the for..of loop
ShareEnter(c, arg) ==
    /\ sharePc = "idle"
    /\ sharePc' = "loop"
    /\ shareContent' = c
    /\ platformsArg' = arg
    /\ targetPlatforms' = TargetPlatforms(arg, platforms)
    /\ idx' = 1
    /\ results' = <<>>
    /\ UNCHANGED <<config, platforms, postLog, returned>>
    /\ UNCHANGED postVars

Share ==
    /\ sharePc = "idle"
    /\ \E c \in ShareContents :
        \E arg \in {Omitted} \cup {Given(l) : l \in SeqsUpTo(TargetNames(config), MaxTargets)} :
            ShareEnter(c, arg)

InvokePostWithoutAwait ==
    /\ sharePc = "loop"
    /\ idx <= Len(targetPlatforms)
    /\ sharePc' = "loop"
    /\ postLog' = Append(postLog,
           [target |-> targetPlatforms[idx],
            adapter |-> getPlatform(platforms, targetPlatforms[idx]),
            content |-> shareContent, outcome |-> Returns(NoResult),
            settled |-> FALSE])
    /\ idx' = idx + 1
    /\ UNCHANGED <<config, platforms, platformsArg, shareContent, targetPlatforms,
                   results, returned>>
    /\ UNCHANGED postVars

\* one loop iteration up to `await platform.post(content)`
InvokePost ==
    /\ sharePc = "loop"
    /\ idx <= Len(targetPlatforms)
    /\ LET platformName == targetPlatforms[idx]
           platform == getPlatform(platforms, platformName)
       IN  IF platform # Undefined
           THEN /\ sharePc' = "await"
                /\ postLog' = Append(postLog,
                       [target |-> platformName, adapter |-> platform,
                        content |-> shareContent, outcome |-> Returns(NoResult),
                        settled |-> FALSE])
                /\ idx' = idx
           ELSE /\ sharePc' = "loop"
                /\ postLog' = postLog
                /\ idx' = idx + 1
    /\ UNCHANGED <<config, platforms, platformsArg, shareContent, targetPlatforms,
                   results, returned>>
    /\ UNCHANGED postVars

\* the awaited post settles: results.push(result) or the catch block
SettleAbort(outcome) ==
    /\ sharePc = "await"
    /\ sharePc' = IF outcome.kind = "throw" THEN "rejected" ELSE "loop"
    /\ results' = IF outcome.kind = "throw" THEN results
                  ELSE Append(results, Pushed(targetPlatforms[idx], outcome))
    /\ returned' = returned
    /\ postLog' = [postLog EXCEPT ![Len(postLog)] =
                      [@ EXCEPT !.outcome = outcome, !.settled = TRUE]]
    /\ idx' = idx + 1
    /\ UNCHANGED <<config, platforms, platformsArg, shareContent, targetPlatforms>>
    /\ UNCHANGED postVars

SettleRetry(outcome) ==
    /\ sharePc = "await"
    /\ sharePc' = "loop"
    /\ results' = Append(results, Pushed(targetPlatforms[idx], outcome))
    /\ postLog' = [postLog EXCEPT ![Len(postLog)] =
                      [@ EXCEPT !.outcome = outcome, !.settled = TRUE]]
    /\ idx' = IF outcome.kind = "return" /\ outcome.result.success THEN idx + 1 ELSE idx
    /\ UNCHANGED <<config, platforms, platformsArg, shareContent, targetPlatforms,
                   returned>>
    /\ UNCHANGED postVars

Settle(outcome) ==
    /\ sharePc = "await"
    /\ sharePc' = "loop"
    /\ results' = Append(results, Pushed(targetPlatforms[idx], outcome))
    /\ postLog' = [postLog EXCEPT ![Len(postLog)] =
                      [@ EXCEPT !.outcome = outcome, !.settled = TRUE]]
    /\ idx' = idx + 1
    /\ UNCHANGED <<config, platforms, platformsArg, shareContent, targetPlatforms,
                   returned>>
    /\ UNCHANGED postVars

PostSettlesClearingMedia ==
    /\ sharePc = "await"
    /\ \E outcome \in PostOutcomes(targetPlatforms[idx]) :
        /\ sharePc' = "loop"
        /\ results' = Append(results, Pushed(targetPlatforms[idx], outcome))
        /\ postLog' = [postLog EXCEPT ![Len(postLog)] =
                          [@ EXCEPT !.outcome = outcome, !.settled = TRUE]]
        /\ idx' = idx + 1
        /\ shareContent' = [shareContent EXCEPT !.media = <<>>]
    /\ UNCHANGED <<config, platforms, platformsArg, targetPlatforms, returned>>
    /\ UNCHANGED postVars

PostSettles ==
    /\ sharePc = "await"
    /\ \E outcome \in PostOutcomes(targetPlatforms[idx]) : Settle(outcome)

\* return results
ShareReturn ==
    /\ sharePc = "loop"
    /\ idx > Len(targetPlatforms)
    /\ sharePc' = "returned"
    /\ returned' = results
    /\ UNCHANGED <<config, platforms, platformsArg, shareContent, targetPlatforms,
                   idx, results, postLog>>
    /\ UNCHANGED postVars

\* the caller has its results and may call share() again: the registry stays,
\* the locals of the call are gone
ShareAgain ==
    /\ sharePc = "returned"
    /\ sharePc' = "idle"
    /\ platformsArg' = Omitted
    /\ shareContent' = [text |-> Undefined, media |-> <<>>]
    /\ targetPlatforms' = <<>>
    /\ idx' = 1
    /\ results' = <<>>
    /\ postLog' = <<>>
    /\ returned' = <<>>
    /\ UNCHANGED <<config, platforms>>
    /\ UNCHANGED postVars

NextShare ==
    \/ Share
    \/ InvokePost
    \/ PostSettles
    \/ ShareReturn
    \/ ShareAgain

SpecShare == InitShare /\ [][NextShare]_vars

(***************************************************************************)
(* Claims about share()                                                    *)
(***************************************************************************)
\* The targets of an explicit list that the configuration has, in list order.
Present(list, cfg) == SelectSeq(list, LAMBDA p : p \in cfg)

FailureFor(name, error) ==
    [platform |-> name, success |-> FALSE, postId |-> Undefined, error |-> error]

\* C1: for an explicit target list, share() returns exactly one PostResult per
\* listed target the registry has, in list order; the i-th result is what the
\* i-th such target's post returned, unmodified, or a failure result for that
\* target when its post threw.
C1_OneResultPerTargetInOrder ==
    (sharePc = "returned" /\ platformsArg.given) =>
        LET present == Present(platformsArg.list, config)
        IN  /\ Len(returned) = Len(present)
            /\ Len(postLog) = Len(present)
            /\ \A i \in 1..Len(present) :
                /\ postLog[i].target = present[i]
                /\ postLog[i].outcome.kind = "return" =>
                       returned[i] = postLog[i].outcome.result
                /\ postLog[i].outcome.kind = "throw" =>
                       returned[i] = FailureFor(present[i], postLog[i].outcome.thrown)

C1_Witness ==
    /\ sharePc = "returned"
    /\ platformsArg.given
    /\ Len(returned) = 2
    /\ postLog[1].outcome.kind = "throw"
    /\ returned[2].success
    /\ returned[1].platform # returned[2].platform

\* C2: a throwing post becomes a failure PostResult for that target only, post
\* is still invoked on every later target, and share() never rejects.
C2_ThrowIsIsolated ==
    /\ sharePc # "rejected"
    /\ \A i \in 1..Len(results) :
           postLog[i].outcome.kind = "throw" =>
               /\ results[i].platform = postLog[i].target
               /\ results[i].success = FALSE
               /\ results[i].error = postLog[i].outcome.thrown
    /\ \A i \in 1..Len(results) :
           postLog[i].outcome.kind = "return" => results[i] = postLog[i].outcome.result
    /\ sharePc = "returned" =>
           /\ Len(postLog) = Len(targetPlatforms)
           /\ \A i \in 1..Len(postLog) : postLog[i].settled

C2_Witness ==
    /\ sharePc = "returned"
    /\ Len(postLog) = 2
    /\ postLog[1].outcome.kind = "throw"
    /\ postLog[2].outcome.kind = "return"
    /\ returned[2].success

\* C3: names of the explicit list that the registry lacks are dropped: they
\* are no target, no post is invoked for them and no result stands for them.
C3_UnknownNamesDropped ==
    /\ \A i \in 1..Len(targetPlatforms) : targetPlatforms[i] \in config
    /\ \A i \in 1..Len(postLog) : postLog[i].target \in config
    /\ (sharePc = "returned" /\ platformsArg.given) =>
           /\ Len(returned) =
                  Cardinality({i \in 1..Len(platformsArg.list) : platformsArg.list[i] \in config})
           /\ \A i \in 1..Len(returned) : returned[i].platform \in config

\* share(content, [A, "unknownPlatform"]) with only A configured has returned
\* a single result, for A.
C3_Witness ==
    /\ sharePc = "returned"
    /\ Cardinality(config) = 1
    /\ platformsArg.given
    /\ Len(platformsArg.list) = 2
    /\ platformsArg.list[1] \in config
    /\ platformsArg.list[2] = "unknownPlatform"
    /\ Len(returned) = 1
    /\ returned[1].platform = platformsArg.list[1]

\* The order the claim lists the platforms in.
InsertionOrder ==
    <<"facebook", "instagram", "twitter", "linkedin", "youtube", "tiktok",
      "pinterest", "reddit", "threads", "discord", "slack", "telegram">>

Position(name) == CHOOSE i \in 1..Len(InsertionOrder) : InsertionOrder[i] = name

\* C4: without a target list the targets are the configured adapters, each
\* once, in insertion order, and post is invoked on them in that order.
C4_DefaultTargetsAreRegistry ==
    (sharePc # "idle" /\ ~platformsArg.given) =>
        /\ {targetPlatforms[i] : i \in 1..Len(targetPlatforms)} = config
        /\ Len(targetPlatforms) = Cardinality(config)
        /\ \A i, j \in 1..Len(targetPlatforms) :
               i < j => Position(targetPlatforms[i]) < Position(targetPlatforms[j])
        /\ \A i \in 1..Len(postLog) : postLog[i].target = targetPlatforms[i]
        /\ sharePc = "returned" => Len(postLog) = Len(targetPlatforms)

C4_Witness ==
    /\ sharePc = "returned"
    /\ ~platformsArg.given
    /\ config = {"slack", "instagram"}
    /\ Len(returned) = 2
    /\ postLog[1].target = "instagram"
    /\ postLog[2].target = "slack"

(***************************************************************************)
(* Platform adapters: shared vocabulary                                    *)
(***************************************************************************)
\* JavaScript truthiness of an optional string
Truthy(x) == x \notin {Undefined, ""}

\* mediaPath.startsWith('http')
StartsWithHttp(loc) == loc.http

Lower(ext) ==
    CASE ext = "MP4" -> "mp4"
      [] ext = "MOV" -> "mov"
      [] OTHER -> ext

\* mediaPath.match(/\.(e1|e2|...)$/i)
MatchesExtI(loc, exts) == Lower(loc.ext) \in exts

\* mediaPath.endsWith('.' + ext), case sensitive
EndsWithExt(loc, ext) == loc.ext = ext

Locators ==
    { Loc(TRUE, "jpg"), Loc(TRUE, "mp4"), Loc(TRUE, "MP4"),
      Loc(FALSE, "jpg"), Loc(FALSE, "mp4") }

MaxMedia == 2

PostContents ==
    [text : {Undefined, "hi"}, media : SeqsUpTo(Locators, MaxMedia)]

\* An upstream answer to one request.  status 0: no response (transport
\* error); 200: success with a body; 401: authorization failure; 429: another
\* rejection.  id, token, st and pages are the body fields the adapters read;
\* a 200 answer with every field undefined is an empty body.
Response(s, id, tok, st, pages) ==
    [status |-> s, id |-> id, token |-> tok, st |-> st, pages |-> pages]

Ok(id, tok)  == Response(200, id, tok, Undefined, <<>>)
OkStatus(st) == Response(200, "id1", Undefined, st, <<>>)
EmptyBody    == Ok(Undefined, Undefined)
HttpError(s) == Response(s, Undefined, Undefined, Undefined, <<>>)

HttpUnauthorized == 401

Failures == {HttpError(HttpUnauthorized), HttpError(429), HttpError(0)}

Responses == {Ok("id1", "tok1"), EmptyBody} \cup Failures

IsOk(resp) == resp.status = 200

\* error.response?.data || error.message || error
ErrorOf(resp) ==
    CASE resp.status = HttpUnauthorized -> "body401"
      [] resp.status = 429 -> "body429"
      [] OTHER -> "Network Error"

\* message of the TypeError thrown on reading a field of an undefined body part
TypeError == "TypeError: Cannot read properties of undefined"

\* message of the error fs.readFileSync throws for an unreadable path
ReadError == "ENOENT: no such file or directory"

Request(api, tok) ==
    [api |-> api, token |-> tok, job |-> Undefined, target |-> Undefined,
     media |-> <<>>, ids |-> <<>>]

Fail(name, e) == PostResult(name, FALSE, Undefined, e)
Success(name, id) == PostResult(name, TRUE, id, Undefined)

\* What a synchronous stretch of post() ends in: a returned PostResult, or a
\* request awaited at position `at`.
Return(r)      == [pc |-> "done", ret |-> r, req |-> <<>>]
Await(at, req) == [pc |-> at, ret |-> NoResult, req |-> <<req>>]

\* Apply the end of a synchronous stretch to pc, ret and net.
Goto(step) ==
    /\ pc' = step.pc
    /\ ret' = step.ret
    /\ net' = net \o step.req

Received(resp) == resps' = Append(resps, resp)

Calls(api) == Cardinality({i \in 1..Len(net) : net[i].api = api})

Frame == UNCHANGED <<adapter, content, secondCall, lap>> /\ UNCHANGED shareVars

\* post(content) is called: the stretch from entry to the first await
Enter(c, step) ==
    /\ pc = "idle"
    /\ content' = c
    /\ Goto(step)
    /\ UNCHANGED <<adapter, accessToken, refreshToken, anchor, resps, depth, locals, secondCall, lap>>
    /\ UNCHANGED pollVars
    /\ UNCHANGED shareVars

\* an awaited request settles and post() runs to its next await or return
Step(resp, step, loc) ==
    /\ Received(resp)
    /\ Goto(step)
    /\ locals' = loc
    /\ UNCHANGED <<accessToken, refreshToken, anchor, depth>>
    /\ UNCHANGED pollVars
    /\ Frame

(***************************************************************************)
(* YouTube                                                                 *)
(***************************************************************************)
\* post(), from entry to the awaited upload request
YouTubeEntry(tok, c) ==
    IF ~Truthy(tok)
    THEN Return(Fail("youtube", "YouTube posting requires accessToken."))
    ELSE IF c.media = <<>>
    THEN Return(Fail("youtube", "YouTube requires a video file."))
    ELSE IF ~MatchesExtI(c.media[1], {"mp4", "mov", "avi", "mkv"})
    THEN Return(Fail("youtube", "File does not appear to be a video."))
    ELSE Await("upload", [Request("upload", tok) EXCEPT !.media = <<c.media[1]>>])

YouTubePost ==
    /\ adapter = "youtube"
    /\ \E c \in PostContents : Enter(c, YouTubeEntry(accessToken, c))

YouTubeCatchNoRefresh(resp, refresh) == Return(Fail("youtube", ErrorOf(resp)))

YouTubeCatchAnyFailure(resp, refresh) ==
    IF Truthy(refresh)
    THEN Await("refresh", Request("refresh", refresh))
    ELSE Return(Fail("youtube", ErrorOf(resp)))

\* the catch block of post(): refresh on 401 when a refresh token is held
YouTubeCatch(resp, refresh) ==
    IF resp.status = HttpUnauthorized /\ Truthy(refresh)
    THEN Await("refresh", Request("refresh", refresh))
    ELSE Return(Fail("youtube", ErrorOf(resp)))

\* the upload request settles
YouTubeUploaded(resp) ==
    IF IsOk(resp)
    THEN Return(Success("youtube", resp.id))
    ELSE YouTubeCatch(resp, refreshToken)

YouTubeUploadResponse ==
    /\ adapter = "youtube"
    /\ pc = "upload"
    /\ \E resp \in Responses :
        /\ YouTubeUploaded(resp).pc = "refresh" => depth < MaxRetries
        /\ Step(resp, YouTubeUploaded(resp), locals)

\* refreshAccessToken() settles inside the catch block: on success the token
\* is stored and post(content) is called again; on failure post() returns.
YouTubeRefreshed(resp) ==
    /\ Received(resp)
    /\ IF IsOk(resp)
       THEN /\ accessToken' = resp.token
            /\ depth' = depth + 1
            /\ Goto(YouTubeEntry(resp.token, content))
       ELSE /\ accessToken' = accessToken
            /\ depth' = depth
            /\ Goto(Return(Fail("youtube", "Token expired and refresh failed.")))
    /\ UNCHANGED <<refreshToken, anchor, locals>>
    /\ UNCHANGED pollVars
    /\ Frame

YouTubeRefreshResponse ==
    /\ adapter = "youtube"
    /\ pc = "refresh"
    /\ \E resp \in Responses : YouTubeRefreshed(resp)

NextYouTube ==
    \/ YouTubePost
    \/ YouTubeUploadResponse
    \/ YouTubeRefreshResponse

(***************************************************************************)
(* TikTok                                                                  *)
(***************************************************************************)
\* a 200 answer whose body lacks the object the adapter reads a field of
NoData(resp) == IsOk(resp) /\ resp = EmptyBody

\* post(), from entry to the awaited init request
TikTokEntry(tok, c) ==
    IF ~Truthy(tok)
    THEN Return(Fail("tiktok", "TikTok posting requires accessToken."))
    ELSE IF c.media = <<>>
    THEN Return(Fail("tiktok", "TikTok requires a video URL."))
    ELSE IF ~StartsWithHttp(c.media[1])
    THEN Return(Fail("tiktok", "TikTok integration currently only supports public URLs (PULL_FROM_URL)."))
    ELSE Await("init", [Request("init", tok) EXCEPT !.media = <<c.media[1]>>])

TikTokPost ==
    /\ adapter = "tiktok"
    /\ \E c \in PostContents : Enter(c, TikTokEntry(accessToken, c))

\* the init request settles: success with the publish id, without polling
TikTokInitiated(resp) ==
    IF ~IsOk(resp) THEN Return(Fail("tiktok", ErrorOf(resp)))
    ELSE IF NoData(resp) THEN Return(Fail("tiktok", TypeError))
    ELSE Return(Success("tiktok", resp.id))

TikTokInitResponse ==
    /\ adapter = "tiktok"
    /\ pc = "init"
    /\ \E resp \in Responses : Step(resp, TikTokInitiated(resp), locals)

NextTikTok ==
    \/ TikTokPost
    \/ TikTokInitResponse

(***************************************************************************)
(* Reddit                                                                  *)
(***************************************************************************)
RedditSubmit(tok, sub, kind, media, url) ==
    Await("submit", [Request("submit", tok) EXCEPT
                        !.target = sub, !.job = kind, !.media = media, !.ids = url])

\* post(), from entry to the first await: the upload lease for a local file,
\* otherwise the submit request
RedditEntry(tok, sub, c) ==
    IF ~Truthy(tok)
    THEN Return(Fail("reddit", "Reddit posting requires accessToken."))
    ELSE IF ~Truthy(sub)
    THEN Return(Fail("reddit", "Reddit posting requires a defaultSubreddit (configure in SocialConfig)."))
    ELSE IF c.media = <<>>
    THEN RedditSubmit(tok, sub, "self", <<>>, <<>>)
    ELSE IF StartsWithHttp(c.media[1])
    THEN RedditSubmit(tok, sub, "link", <<c.media[1]>>, <<>>)
    ELSE Await("lease", [Request("lease", tok) EXCEPT !.media = <<c.media[1]>>])

RedditPost ==
    /\ adapter = "reddit"
    /\ \E c \in PostContents : Enter(c, RedditEntry(accessToken, anchor, c))

\* uploadFile: the lease request settles
RedditLeased(resp) ==
    IF ~IsOk(resp) THEN Return(Fail("reddit", ErrorOf(resp)))
    ELSE IF NoData(resp) THEN Return(Fail("reddit", TypeError))
    ELSE Await("s3", [Request("s3", Undefined) EXCEPT !.media = <<content.media[1]>>])

RedditLeaseResponse ==
    /\ adapter = "reddit"
    /\ pc = "lease"
    /\ \E resp \in Responses : Step(resp, RedditLeased(resp), locals)

\* uploadFile: the S3 upload settles; its body carries the Location or not
RedditStored(resp) ==
    IF ~IsOk(resp) THEN Return(Fail("reddit", ErrorOf(resp)))
    ELSE IF resp.id = Undefined
    THEN Return(Fail("reddit", "Failed to retrieve uploaded file location from Reddit."))
    ELSE RedditSubmit(accessToken, anchor,
                      IF EndsWithExt(content.media[1], "mp4") THEN "video" ELSE "image",
                      <<>>, <<resp.id>>)

RedditS3Response ==
    /\ adapter = "reddit"
    /\ pc = "s3"
    /\ \E resp \in Responses : Step(resp, RedditStored(resp), locals)

\* the submit request settles
RedditSubmitted(resp) ==
    IF ~IsOk(resp) THEN Return(Fail("reddit", ErrorOf(resp)))
    ELSE IF NoData(resp) THEN Return(Fail("reddit", TypeError))
    ELSE IF resp.st = "errors" THEN Return(Fail("reddit", "Reddit API Error"))
    ELSE Return(Success("reddit", resp.id))

RedditSubmitResponse ==
    /\ adapter = "reddit"
    /\ pc = "submit"
    /\ \E resp \in Responses \cup {OkStatus("errors")} :
        Step(resp, RedditSubmitted(resp), locals)

NextReddit ==
    \/ RedditPost
    \/ RedditLeaseResponse
    \/ RedditS3Response
    \/ RedditSubmitResponse

(***************************************************************************)
(* LinkedIn                                                                *)
(***************************************************************************)
LinkedInPublish(tok, author, urn) ==
    Await("publish", [Request("publish", tok) EXCEPT
                         !.target = author,
                         !.ids = IF Truthy(urn) THEN <<urn>> ELSE <<>>])

\* post(), from entry to the first await
LinkedInEntry(tok, author, c) ==
    IF ~Truthy(tok) \/ ~Truthy(author)
    THEN Return(Fail("linkedin", "LinkedIn posting requires accessToken and authorId. Authenticate first."))
    ELSE IF c.media # <<>>
    THEN Await("init", [Request("init", tok) EXCEPT !.target = author])
    ELSE LinkedInPublish(tok, author, Undefined)

LinkedInPost ==
    /\ adapter = "linkedin"
    /\ \E c \in PostContents : Enter(c, LinkedInEntry(accessToken, anchor, c))

LinkedInUpload(tok, loc) ==
    Await("upload", [Request("upload", tok) EXCEPT !.media = <<loc>>])

\* initializeUpload settles; the image is then downloaded, or read from disk
\* (readable: whether fs.readFileSync finds the file)
LinkedInInitialized(resp, readable) ==
    IF ~IsOk(resp) THEN Return(Fail("linkedin", ErrorOf(resp)))
    ELSE IF NoData(resp) THEN Return(Fail("linkedin", TypeError))
    ELSE IF StartsWithHttp(content.media[1])
    THEN Await("download", [Request("download", Undefined) EXCEPT !.media = <<content.media[1]>>])
    ELSE IF ~readable THEN Return(Fail("linkedin", ReadError))
    ELSE LinkedInUpload(accessToken, content.media[1])

LinkedInInitResponse ==
    /\ adapter = "linkedin"
    /\ pc = "init"
    /\ \E resp \in Responses, readable \in BOOLEAN :
        Step(resp, LinkedInInitialized(resp, readable), [locals EXCEPT !.job = resp.id])

LinkedInDownloaded(resp) ==
    IF ~IsOk(resp) THEN Return(Fail("linkedin", ErrorOf(resp)))
    ELSE LinkedInUpload(accessToken, content.media[1])

LinkedInDownloadResponse ==
    /\ adapter = "linkedin"
    /\ pc = "download"
    /\ \E resp \in Responses : Step(resp, LinkedInDownloaded(resp), locals)

LinkedInUploaded(resp) ==
    IF ~IsOk(resp) THEN Return(Fail("linkedin", ErrorOf(resp)))
    ELSE LinkedInPublish(accessToken, anchor, locals.job)

LinkedInUploadResponse ==
    /\ adapter = "linkedin"
    /\ pc = "upload"
    /\ \E resp \in Responses : Step(resp, LinkedInUploaded(resp), locals)

\* response.headers["x-restli-id"] || response.data.id || response.data
LinkedInPostId(resp) == IF Truthy(resp.id) THEN resp.id ELSE "response.data"

LinkedInPublished(resp) ==
    IF ~IsOk(resp) THEN Return(Fail("linkedin", ErrorOf(resp)))
    ELSE Return(Success("linkedin", LinkedInPostId(resp)))

LinkedInPublishResponse ==
    /\ adapter = "linkedin"
    /\ pc = "publish"
    /\ \E resp \in Responses : Step(resp, LinkedInPublished(resp), locals)

NextLinkedIn ==
    \/ LinkedInPost
    \/ LinkedInInitResponse
    \/ LinkedInDownloadResponse
    \/ LinkedInUploadResponse
    \/ LinkedInPublishResponse

(***************************************************************************)
(* Twitter (accessToken is this.token, anchor is this.oauth)               *)
(***************************************************************************)
TwitterUpload(tok, loc) ==
    Await("upload", [Request("upload", tok) EXCEPT !.media = <<loc>>])

\* the media loop from its i-th iteration to the next await; after the last
\* iteration, the tweet request
TwitterMedia(tok, c, i, ids, readable) ==
    IF i > Len(c.media)
    THEN Await("tweet", [Request("tweet", tok) EXCEPT !.ids = ids])
    ELSE IF StartsWithHttp(c.media[i])
    THEN Await("download", [Request("download", Undefined) EXCEPT !.media = <<c.media[i]>>])
    ELSE IF ~readable THEN Return(Fail("twitter", ReadError))
    ELSE TwitterUpload(tok, c.media[i])

TwitterEntry(oauth, tok, c, readable) ==
    IF ~Truthy(oauth) \/ ~Truthy(tok)
    THEN Return(Fail("twitter", "Twitter posting requires OAuth 1.0a credentials (apiKey, apiSecret, accessToken, accessSecret)."))
    ELSE TwitterMedia(tok, c, 1, <<>>, readable)

TwitterPost ==
    /\ adapter = "twitter"
    /\ \E c \in PostContents, readable \in BOOLEAN :
        Enter(c, TwitterEntry(anchor, accessToken, c, readable))

TwitterDownloaded(resp) ==
    IF ~IsOk(resp) THEN Return(Fail("twitter", ErrorOf(resp)))
    ELSE TwitterUpload(accessToken, content.media[locals.i])

TwitterDownloadResponse ==
    /\ adapter = "twitter"
    /\ pc = "download"
    /\ \E resp \in Responses : Step(resp, TwitterDownloaded(resp), locals)

TwitterUploadedPrepending(resp, readable) ==
    IF ~IsOk(resp) THEN Return(Fail("twitter", ErrorOf(resp)))
    ELSE TwitterMedia(accessToken, content, locals.i + 1,
                      <<resp.id>> \o locals.ids, readable)

\* mediaIds.push(uploadResponse.data.media_id_string), then the next iteration
TwitterUploaded(resp, readable) ==
    IF ~IsOk(resp) THEN Return(Fail("twitter", ErrorOf(resp)))
    ELSE TwitterMedia(accessToken, content, locals.i + 1,
                      Append(locals.ids, resp.id), readable)

TwitterUploadResponse ==
    /\ adapter = "twitter"
    /\ pc = "upload"
    /\ \E resp \in Responses \cup {Ok("id2", "tok1")}, readable \in BOOLEAN :
        Step(resp, TwitterUploaded(resp, readable),
             IF IsOk(resp)
             THEN [locals EXCEPT !.i = @ + 1, !.ids = Append(@, resp.id)]
             ELSE locals)

TwitterTweeted(resp) ==
    IF ~IsOk(resp) THEN Return(Fail("twitter", ErrorOf(resp)))
    ELSE IF NoData(resp) THEN Return(Fail("twitter", TypeError))
    ELSE Return(Success("twitter", resp.id))

TwitterTweetResponse ==
    /\ adapter = "twitter"
    /\ pc = "tweet"
    /\ \E resp \in Responses : Step(resp, TwitterTweeted(resp), locals)

NextTwitter ==
    \/ TwitterPost
    \/ TwitterDownloadResponse
    \/ TwitterUploadResponse
    \/ TwitterTweetResponse

(***************************************************************************)
(* Status poll loops                                                       *)
(***************************************************************************)
MaxPolls == 3          \* cap on the polls of a loop the code does not bound

\* The identifier the platform gives a job: opaque, and new with every
\* registration, so a later call on the instance is given another one.
JobId(later) == IF later THEN "id2" ELSE "id1"

\* answers to a registration request
Registrations == {Ok(JobId(secondCall), "tok1"), EmptyBody} \cup Failures

\* a 200 answer whose body says `ok: false` and names the reason
Rejected == OkStatus("rejected")

\* the reason such a body gives (Slack: data.error, Telegram: data.description)
RejectionText == "rejection in body"

PollResponses(statuses) == {OkStatus(st) : st \in statuses} \cup {EmptyBody} \cup Failures

\* The request before a poll loop settles and the loop is reached: status and
\* attempts are initialised and the loop head runs for the first time.
EnterLoop(resp, step, loc, st) ==
    /\ Received(resp)
    /\ Goto(step)
    /\ locals' = loc
    /\ status' = st
    /\ attempts' = 0
    /\ polls' = IF step.pc = "poll" THEN 1 ELSE 0
    /\ UNCHANGED <<accessToken, refreshToken, anchor, depth>>
    /\ Frame

\* A status poll settles and the loop head runs again: either the next poll
\* is issued, or the loop is left and the answer that ended it is recorded.
PollStep(resp, step, st, att) ==
    /\ status' = st
    /\ attempts' = att
    /\ IF step.pc = "poll"
       THEN /\ polls' = polls + 1
            /\ UNCHANGED <<pc, ret, net, resps>>
       ELSE /\ polls' = polls
            /\ Received(resp)
            /\ Goto(step)
    /\ UNCHANGED <<accessToken, refreshToken, anchor, depth, locals>>
    /\ Frame

(***************************************************************************)
(* Pinterest                                                               *)
(***************************************************************************)
Placeholder == Loc(TRUE, "png")

PinterestIsVideo(loc) == MatchesExtI(loc, {"mp4", "mov", "m4v"})

PinterestPin(tok, board, job, media) ==
    Await("pin", [Request("pin", tok) EXCEPT
                     !.target = board, !.job = job, !.media = media])

PinterestEntryNoMediaCheck(tok, board, c) ==
    IF ~Truthy(tok)
    THEN Return(Fail("pinterest", "Pinterest posting requires accessToken."))
    ELSE IF ~Truthy(board)
    THEN Return(Fail("pinterest", "Pinterest posting requires a boardId (configure in SocialConfig)."))
    ELSE IF c.media = <<>>
    THEN PinterestPin(tok, board, Undefined, <<>>)
    ELSE IF PinterestIsVideo(c.media[1])
    THEN Await("register", Request("register", tok))
    ELSE IF ~StartsWithHttp(c.media[1])
    THEN Return(Fail("pinterest", "Pinterest only supports image URLs (or local video files)."))
    ELSE PinterestPin(tok, board, Undefined, <<c.media[1]>>)

\* post(), from entry to the first await
PinterestEntry(tok, board, c) ==
    IF ~Truthy(tok)
    THEN Return(Fail("pinterest", "Pinterest posting requires accessToken."))
    ELSE IF ~Truthy(board)
    THEN Return(Fail("pinterest", "Pinterest posting requires a boardId (configure in SocialConfig)."))
    ELSE IF c.media = <<>>
    THEN Return(Fail("pinterest", "Pinterest requires media (image URL or video file)."))
    ELSE IF PinterestIsVideo(c.media[1])
    THEN Await("register", Request("register", tok))
    ELSE IF ~StartsWithHttp(c.media[1])
    THEN Return(Fail("pinterest", "Pinterest only supports image URLs (or local video files)."))
    ELSE PinterestPin(tok, board, Undefined, <<c.media[1]>>)

PinterestPost ==
    /\ adapter = "pinterest"
    /\ \E c \in PostContents : Enter(c, PinterestEntry(accessToken, anchor, c))

PinterestRegistered(resp) ==
    IF ~IsOk(resp) THEN Return(Fail("pinterest", ErrorOf(resp)))
    ELSE IF NoData(resp) THEN Return(Fail("pinterest", TypeError))
    ELSE Await("upload", [Request("upload", Undefined) EXCEPT !.media = <<content.media[1]>>])

PinterestRegisterResponse ==
    /\ adapter = "pinterest"
    /\ pc = "register"
    /\ \E resp \in Registrations :
        Step(resp, PinterestRegistered(resp), [locals EXCEPT !.job = resp.id])

PinterestCoverFromVideo(c) == IF Len(c.media) >= 2 THEN c.media[2] ELSE c.media[1]

\* content.media[1] || 'https://placehold.co/600x400.png'
PinterestCover(c) == IF Len(c.media) >= 2 THEN c.media[2] ELSE Placeholder

\* head of `while (status !== 'succeeded')`: no bound on the iterations
PinterestLoop(st) ==
    IF st = "succeeded"
    THEN PinterestPin(accessToken, anchor, locals.job, <<PinterestCover(content)>>)
    ELSE Await("poll", [Request("poll", accessToken) EXCEPT !.job = locals.job])

PinterestUploaded(resp) ==
    IF ~IsOk(resp) THEN Return(Fail("pinterest", ErrorOf(resp)))
    ELSE PinterestLoop("processing")

PinterestUploadResponse ==
    /\ adapter = "pinterest"
    /\ pc = "upload"
    /\ \E resp \in Responses :
        EnterLoop(resp, PinterestUploaded(resp), locals,
                  IF IsOk(resp) THEN "processing" ELSE status)

PinterestPolled(resp) ==
    IF ~IsOk(resp) THEN Return(Fail("pinterest", ErrorOf(resp)))
    ELSE IF resp.st = "failed"
    THEN Return(Fail("pinterest", "Video upload failed processing."))
    ELSE PinterestLoop(resp.st)

PinterestPollResponse ==
    /\ adapter = "pinterest"
    /\ pc = "poll"
    /\ \E resp \in PollResponses({"processing", "succeeded", "failed"}) :
        /\ PinterestPolled(resp).pc = "poll" => polls < MaxPolls
        /\ PollStep(resp, PinterestPolled(resp),
                    IF IsOk(resp) THEN resp.st ELSE status, attempts)

PinterestPinned(resp) ==
    IF ~IsOk(resp) THEN Return(Fail("pinterest", ErrorOf(resp)))
    ELSE Return(Success("pinterest", resp.id))

PinterestPinResponse ==
    /\ adapter = "pinterest"
    /\ pc = "pin"
    /\ \E resp \in Responses : Step(resp, PinterestPinned(resp), locals)

NextPinterest ==
    \/ PinterestPost
    \/ PinterestRegisterResponse
    \/ PinterestUploadResponse
    \/ PinterestPollResponse
    \/ PinterestPinResponse

(***************************************************************************)
(* Facebook                                                                *)
(***************************************************************************)
Page(id, tok) == [id |-> id, token |-> tok]

\* bodies of GET me/accounts: the pages the user manages
PageLists ==
    { <<>>,
      <<Page("anchor0", "ptok0")>>,
      <<Page("page1", "ptok1")>>,
      <<Page("page1", Undefined)>>,
      <<Page("page1", "ptok1"), Page("anchor0", "ptok0")>> }

AccountsResponses ==
    {Response(200, Undefined, Undefined, Undefined, pages) : pages \in PageLists}
        \cup Failures

\* pages.find(p => p.id === this.pageId), else pages[0]
TargetPage(pages, pageId) ==
    LET found == {i \in 1..Len(pages) : Truthy(pageId) /\ pages[i].id = pageId}
    IN  IF found = {} THEN pages[1]
        ELSE pages[CHOOSE i \in found : \A j \in found : i <= j]

FacebookTargetAsConfigured(resp, tok, pageId) ==
    [pageToken |-> tok, pageId |-> pageId]

\* pageAccessToken and targetPageId after the accounts request settled
FacebookTarget(resp, tok, pageId) ==
    IF IsOk(resp) /\ Len(resp.pages) > 0 /\ Truthy(TargetPage(resp.pages, pageId).token)
    THEN [pageToken |-> TargetPage(resp.pages, pageId).token,
          pageId |-> TargetPage(resp.pages, pageId).id]
    ELSE [pageToken |-> tok, pageId |-> pageId]

\* post() has no credential check: its first step is the accounts request
FacebookEntry(tok, c) == Await("accounts", Request("accounts", tok))

FacebookPost ==
    /\ adapter = "facebook"
    /\ \E c \in PostContents : Enter(c, FacebookEntry(accessToken, c))

FacebookPublish(target, c) ==
    IF ~Truthy(target.pageId)
    THEN Return(Fail("facebook", "No target Page ID found for Facebook post."))
    ELSE IF c.media # <<>>
    THEN IF ~StartsWithHttp(c.media[1])
         THEN Return(Fail("facebook", "Facebook Graph API (Axios implementation) requires public URLs for media."))
         ELSE Await("photos", [Request("photos", target.pageToken) EXCEPT
                                  !.target = target.pageId, !.media = <<c.media[1]>>])
    ELSE IF Truthy(c.text)
    THEN Await("feed", [Request("feed", target.pageToken) EXCEPT !.target = target.pageId])
    ELSE Return(Fail("facebook", "No content provided for Facebook post"))

FacebookAccountsResponse ==
    /\ adapter = "facebook"
    /\ pc = "accounts"
    /\ \E resp \in AccountsResponses :
        LET target == FacebookTarget(resp, accessToken, anchor)
        IN  Step(resp, FacebookPublish(target, content),
                 [locals EXCEPT !.pageToken = target.pageToken,
                                !.pageId = target.pageId])

FacebookPublished(resp) ==
    IF ~IsOk(resp) THEN Return(Fail("facebook", ErrorOf(resp)))
    ELSE Return(Success("facebook", resp.id))

FacebookPublishResponse ==
    /\ adapter = "facebook"
    /\ pc \in {"photos", "feed"}
    /\ \E resp \in Responses : Step(resp, FacebookPublished(resp), locals)

NextFacebook ==
    \/ FacebookPost
    \/ FacebookAccountsResponse
    \/ FacebookPublishResponse

(***************************************************************************)
(* Instagram                                                               *)
(***************************************************************************)
InstagramMaxAttempts == 30

InstagramEntryAnyLocator(tok, account, c) ==
    IF ~Truthy(tok) \/ ~Truthy(account)
    THEN Return(Fail("instagram", "Instagram posting requires accessToken and accountId. Authenticate first."))
    ELSE IF c.media = <<>>
    THEN Return(Fail("instagram", "Instagram requires media (image or video)"))
    ELSE Await("container",
               [Request("container", tok) EXCEPT
                   !.media = <<c.media[1]>>,
                   !.job = IF MatchesExtI(c.media[1], {"mp4", "mov"}) THEN "VIDEO" ELSE "IMAGE"])

\* post(), from entry to the container request
InstagramEntry(tok, account, c) ==
    IF ~Truthy(tok) \/ ~Truthy(account)
    THEN Return(Fail("instagram", "Instagram posting requires accessToken and accountId. Authenticate first."))
    ELSE IF c.media = <<>>
    THEN Return(Fail("instagram", "Instagram requires media (image or video)"))
    ELSE IF ~StartsWithHttp(c.media[1])
    THEN Return(Fail("instagram", "Instagram Graph API requires a public URL for media."))
    ELSE Await("container",
               [Request("container", tok) EXCEPT
                   !.media = <<c.media[1]>>,
                   !.job = IF MatchesExtI(c.media[1], {"mp4", "mov"}) THEN "VIDEO" ELSE "IMAGE"])

InstagramPost ==
    /\ adapter = "instagram"
    /\ \E c \in PostContents : Enter(c, InstagramEntry(accessToken, anchor, c))

InstagramLoopTimeoutFirst(st, att, creationId) ==
    IF att >= InstagramMaxAttempts
    THEN Return(Fail("instagram", "Media processing timed out"))
    ELSE IF st \in {"FINISHED", "READY"}
    THEN Await("publish", [Request("publish", accessToken) EXCEPT !.job = creationId])
    ELSE IF st = "ERROR"
    THEN Return(Fail("instagram", "Media container status is ERROR"))
    ELSE Await("poll", [Request("poll", accessToken) EXCEPT !.job = creationId])

InstagramLoopOneMore(st, att, creationId) ==
    IF st \in {"FINISHED", "READY"}
    THEN Await("publish", [Request("publish", accessToken) EXCEPT !.job = creationId])
    ELSE IF st = "ERROR"
    THEN Return(Fail("instagram", "Media container status is ERROR"))
    ELSE IF att > InstagramMaxAttempts
    THEN Return(Fail("instagram", "Media processing timed out"))
    ELSE Await("poll", [Request("poll", accessToken) EXCEPT !.job = creationId])

\* head of `while (status !== 'FINISHED' && status !== 'READY')`
InstagramLoop(st, att, creationId) ==
    IF st \in {"FINISHED", "READY"}
    THEN Await("publish", [Request("publish", accessToken) EXCEPT !.job = creationId])
    ELSE IF st = "ERROR"
    THEN Return(Fail("instagram", "Media container status is ERROR"))
    ELSE IF att >= InstagramMaxAttempts
    THEN Return(Fail("instagram", "Media processing timed out"))
    ELSE Await("poll", [Request("poll", accessToken) EXCEPT !.job = creationId])

InstagramContainedStaleId(resp) ==
    IF ~IsOk(resp) THEN Return(Fail("instagram", ErrorOf(resp)))
    ELSE InstagramLoop("IN_PROGRESS", 0, locals.job)

InstagramContained(resp) ==
    IF ~IsOk(resp) THEN Return(Fail("instagram", ErrorOf(resp)))
    ELSE InstagramLoop("IN_PROGRESS", 0, resp.id)

InstagramContainerResponse ==
    /\ adapter = "instagram"
    /\ locals.op = "post"
    /\ pc = "container"
    /\ \E resp \in Registrations :
        EnterLoop(resp, InstagramContained(resp), [locals EXCEPT !.job = resp.id],
                  IF IsOk(resp) THEN "IN_PROGRESS" ELSE status)

InstagramPolledIgnoringError(resp) ==
    IF ~IsOk(resp) THEN Return(Fail("instagram", ErrorOf(resp)))
    ELSE InstagramLoop(IF resp.st = "ERROR" THEN "IN_PROGRESS" ELSE resp.st,
                       attempts + 1, locals.job)

InstagramPolledExpiredFails(resp) ==
    IF ~IsOk(resp) THEN Return(Fail("instagram", ErrorOf(resp)))
    ELSE InstagramLoop(IF resp.st = "EXPIRED" THEN "ERROR" ELSE resp.st,
                       attempts + 1, locals.job)

\* status = statusResponse.data.status_code; attempts++
InstagramPolled(resp) ==
    IF ~IsOk(resp) THEN Return(Fail("instagram", ErrorOf(resp)))
    ELSE InstagramLoop(resp.st, attempts + 1, locals.job)

InstagramPollResponse ==
    /\ adapter = "instagram"
    /\ locals.op = "post"
    /\ pc = "poll"
    /\ \E resp \in PollResponses({"IN_PROGRESS", "FINISHED", "READY", "ERROR", "EXPIRED"}) :
        PollStep(resp, InstagramPolled(resp),
                 IF IsOk(resp) THEN resp.st ELSE status,
                 IF IsOk(resp) THEN attempts + 1 ELSE attempts)

InstagramPublished(resp) ==
    IF ~IsOk(resp) THEN Return(Fail("instagram", ErrorOf(resp)))
    ELSE Return(Success("instagram", resp.id))

InstagramPublishResponse ==
    /\ adapter = "instagram"
    /\ locals.op = "post"
    /\ pc = "publish"
    /\ \E resp \in Responses : Step(resp, InstagramPublished(resp), locals)

NextInstagram ==
    \/ InstagramPost
    \/ InstagramContainerResponse
    \/ InstagramPollResponse
    \/ InstagramPublishResponse

(***************************************************************************)
(* Instagram.postStory                                                     *)
(***************************************************************************)
InstagramStoryMaxAttempts == 20

\* postStory resolves with { success, storyId?, error? }: no platform field
StoryFail(e) == PostResult(Undefined, FALSE, Undefined, e)
StorySuccess(id) == PostResult(Undefined, TRUE, id, Undefined)

\* error.response?.data?.error?.message || error.message
StoryErrorOf(resp) ==
    CASE resp.status = HttpUnauthorized -> "message401"
      [] resp.status = 429 -> "message429"
      [] OTHER -> "Network Error"

\* postStory(mediaUrl, mediaType), from entry to the container request
InstagramStoryEntry(tok, account, mediaUrl, mediaType) ==
    IF ~Truthy(tok) \/ ~Truthy(account)
    THEN Return(StoryFail("Access token and account ID are required"))
    ELSE IF ~StartsWithHttp(mediaUrl)
    THEN Return(StoryFail("Instagram requires a public URL for media."))
    ELSE Await("container",
               [Request("container", tok) EXCEPT
                   !.target = account, !.media = <<mediaUrl>>, !.job = mediaType])

InstagramPostStory ==
    /\ adapter = "instagram"
    /\ pc = "idle"
    /\ \E mediaUrl \in Locators, mediaType \in {"IMAGE", "VIDEO"} :
        /\ content' = [text |-> Undefined, media |-> <<mediaUrl>>]
        /\ locals' = [locals EXCEPT !.op = "postStory"]
        /\ Goto(InstagramStoryEntry(accessToken, anchor, mediaUrl, mediaType))
    /\ UNCHANGED <<adapter, accessToken, refreshToken, anchor, resps, depth, secondCall, lap>>
    /\ UNCHANGED pollVars
    /\ UNCHANGED shareVars

\* head of `while (status === 'IN_PROGRESS' && attempts < maxAttempts)` and
\* the statements after the loop
InstagramStoryLoop(st, att, creationId) ==
    IF st = "IN_PROGRESS" /\ att < InstagramStoryMaxAttempts
    THEN Await("poll", [Request("poll", accessToken) EXCEPT !.job = creationId])
    ELSE IF st = "IN_PROGRESS"
    THEN Return(StoryFail("Story container timed out."))
    ELSE Await("publish", [Request("publish", accessToken) EXCEPT
                              !.target = anchor, !.job = creationId])

InstagramStoryContained(resp) ==
    IF ~IsOk(resp) THEN Return(StoryFail(StoryErrorOf(resp)))
    ELSE InstagramStoryLoop("IN_PROGRESS", 0, resp.id)

InstagramStoryContainerResponse ==
    /\ adapter = "instagram"
    /\ locals.op = "postStory"
    /\ pc = "container"
    /\ \E resp \in Registrations :
        EnterLoop(resp, InstagramStoryContained(resp), [locals EXCEPT !.job = resp.id],
                  IF IsOk(resp) THEN "IN_PROGRESS" ELSE status)

\* attempts++ only when the status read is IN_PROGRESS
InstagramStoryAttempts(resp) ==
    IF IsOk(resp) /\ resp.st = "IN_PROGRESS" THEN attempts + 1 ELSE attempts

\* status = statusResponse.data.status_code; ERROR throws
InstagramStoryPolled(resp) ==
    IF ~IsOk(resp) THEN Return(StoryFail(StoryErrorOf(resp)))
    ELSE IF resp.st = "ERROR"
    THEN Return(StoryFail("Story container creation failed."))
    ELSE InstagramStoryLoop(resp.st, InstagramStoryAttempts(resp), locals.job)

InstagramStoryPollResponse ==
    /\ adapter = "instagram"
    /\ locals.op = "postStory"
    /\ pc = "poll"
    /\ \E resp \in PollResponses({"IN_PROGRESS", "FINISHED", "READY", "ERROR", "EXPIRED"}) :
        PollStep(resp, InstagramStoryPolled(resp),
                 IF IsOk(resp) THEN resp.st ELSE status,
                 InstagramStoryAttempts(resp))

InstagramStoryPublished(resp) ==
    IF ~IsOk(resp) THEN Return(StoryFail(StoryErrorOf(resp)))
    ELSE Return(StorySuccess(resp.id))

InstagramStoryPublishResponse ==
    /\ adapter = "instagram"
    /\ locals.op = "postStory"
    /\ pc = "publish"
    /\ \E resp \in Responses : Step(resp, InstagramStoryPublished(resp), locals)

NextInstagramStory ==
    \/ InstagramPostStory
    \/ InstagramStoryContainerResponse
    \/ InstagramStoryPollResponse
    \/ InstagramStoryPublishResponse

(***************************************************************************)
(* Threads                                                                 *)
(***************************************************************************)
ThreadsMaxAttempts == 10

\* error.response?.data?.error?.message || error.message || error
ThreadsErrorOf(resp) ==
    CASE resp.status = HttpUnauthorized -> "message401"
      [] resp.status = 429 -> "message429"
      [] OTHER -> "Network Error"

\* post() once this.userId is settled, up to the container request
ThreadsContainer(tok, user, c) ==
    IF c.media # <<>> /\ ~StartsWithHttp(c.media[1])
    THEN Return(Fail("threads", "Threads requires public URLs for media."))
    ELSE Await("container",
               [Request("container", tok) EXCEPT
                   !.target = user,
                   !.media = IF c.media = <<>> THEN <<>> ELSE <<c.media[1]>>,
                   !.job = IF c.media = <<>> THEN "TEXT"
                           ELSE IF EndsWithExt(c.media[1], "mp4") THEN "VIDEO"
                           ELSE "IMAGE"])

\* post(), from entry to the first await
ThreadsEntry(tok, user, c) ==
    IF ~Truthy(tok)
    THEN Return(Fail("threads", "Threads posting requires accessToken."))
    ELSE IF ~Truthy(user)
    THEN Await("me", Request("me", tok))
    ELSE ThreadsContainer(tok, user, c)

ThreadsPost ==
    /\ adapter = "threads"
    /\ \E c \in PostContents : Enter(c, ThreadsEntry(accessToken, anchor, c))

\* the user lookup settles: this.userId = userResponse.data.id
ThreadsIdentified(resp) ==
    IF ~IsOk(resp) THEN Return(Fail("threads", "Threads posting requires userId."))
    ELSE ThreadsContainer(accessToken, resp.id, content)

ThreadsMeResponse ==
    /\ adapter = "threads"
    /\ pc = "me"
    /\ \E resp \in Responses :
        /\ Received(resp)
        /\ Goto(ThreadsIdentified(resp))
        /\ anchor' = IF IsOk(resp) THEN resp.id ELSE anchor
        /\ UNCHANGED <<accessToken, refreshToken, depth, locals>>
        /\ UNCHANGED pollVars
        /\ Frame

ThreadsLoopTenPolls(st, att, creationId) ==
    IF st = "FINISHED"
    THEN Await("publish", [Request("publish", accessToken) EXCEPT
                              !.target = anchor, !.job = creationId])
    ELSE IF att >= ThreadsMaxAttempts
    THEN Return(Fail("threads", "Media processing timed out"))
    ELSE Await("poll", [Request("poll", accessToken) EXCEPT !.job = creationId])

\* head of `while (status !== 'FINISHED')`
ThreadsLoop(st, att, creationId) ==
    IF st = "FINISHED"
    THEN Await("publish", [Request("publish", accessToken) EXCEPT
                              !.target = anchor, !.job = creationId])
    ELSE IF att > ThreadsMaxAttempts
    THEN Return(Fail("threads", "Media processing timed out"))
    ELSE Await("poll", [Request("poll", accessToken) EXCEPT !.job = creationId])

ThreadsContained(resp) ==
    IF ~IsOk(resp) THEN Return(Fail("threads", ThreadsErrorOf(resp)))
    ELSE ThreadsLoop("IN_PROGRESS", 0, resp.id)

ThreadsContainerResponse ==
    /\ adapter = "threads"
    /\ pc = "container"
    /\ \E resp \in Registrations :
        EnterLoop(resp, ThreadsContained(resp), [locals EXCEPT !.job = resp.id],
                  IF IsOk(resp) THEN "IN_PROGRESS" ELSE status)

ThreadsPolledErrorAsTimeout(resp) ==
    IF ~IsOk(resp) THEN Return(Fail("threads", ThreadsErrorOf(resp)))
    ELSE IF resp.st = "ERROR"
    THEN Return(Fail("threads", "Media processing timed out"))
    ELSE ThreadsLoop(resp.st, attempts + 1, locals.job)

\* status = statusResponse.data.status; ERROR throws before attempts++
ThreadsPolled(resp) ==
    IF ~IsOk(resp) THEN Return(Fail("threads", ThreadsErrorOf(resp)))
    ELSE IF resp.st = "ERROR"
    THEN Return(Fail("threads", "Media processing failed"))
    ELSE ThreadsLoop(resp.st, attempts + 1, locals.job)

ThreadsPollResponse ==
    /\ adapter = "threads"
    /\ pc = "poll"
    /\ \E resp \in PollResponses({"IN_PROGRESS", "FINISHED", "ERROR", "EXPIRED"}) :
        PollStep(resp, ThreadsPolled(resp),
                 IF IsOk(resp) THEN resp.st ELSE status,
                 IF IsOk(resp) /\ resp.st # "ERROR" THEN attempts + 1 ELSE attempts)

ThreadsPublishedRetry(resp) ==
    IF ~IsOk(resp)
    THEN Await("publish", [Request("publish", accessToken) EXCEPT
                              !.target = anchor, !.job = locals.job])
    ELSE Return(Success("threads", resp.id))

ThreadsPublished(resp) ==
    IF ~IsOk(resp) THEN Return(Fail("threads", ThreadsErrorOf(resp)))
    ELSE Return(Success("threads", resp.id))

ThreadsPublishResponse ==
    /\ adapter = "threads"
    /\ pc = "publish"
    /\ \E resp \in Responses : Step(resp, ThreadsPublished(resp), locals)

NextThreads ==
    \/ ThreadsPost
    \/ ThreadsMeResponse
    \/ ThreadsContainerResponse
    \/ ThreadsPollResponse
    \/ ThreadsPublishResponse

(***************************************************************************)
(* Slack                                                                   *)
(***************************************************************************)
SlackEntryNoChannelCheck(tok, c, channelId) ==
    IF ~Truthy(tok)
    THEN Return(Fail("slack", "Slack posting requires accessToken."))
    ELSE Await("join", [Request("join", tok) EXCEPT !.target = channelId])

\* post(content, channelId), from entry to the join request
SlackEntry(tok, c, channelId) ==
    IF ~Truthy(tok)
    THEN Return(Fail("slack", "Slack posting requires accessToken."))
    ELSE IF ~Truthy(channelId)
    THEN Return(Fail("slack", "Slack posting requires a channelId."))
    ELSE Await("join", [Request("join", tok) EXCEPT !.target = channelId])

SlackPost ==
    /\ adapter = "slack"
    /\ pc = "idle"
    /\ \E c \in PostContents, channelId \in {Undefined, "chan0"} :
        /\ content' = c
        /\ locals' = [locals EXCEPT !.channel = channelId]
        /\ Goto(SlackEntry(accessToken, c, channelId))
    /\ UNCHANGED <<adapter, accessToken, refreshToken, anchor, resps, depth, secondCall, lap>>
    /\ UNCHANGED pollVars
    /\ UNCHANGED shareVars

\* error.response?.data?.error || error.message || error
SlackErrorOf(resp) ==
    CASE resp.status = HttpUnauthorized -> "error401"
      [] resp.status = 429 -> "error429"
      [] OTHER -> "Network Error"

\* conversations.join settles; its body is not inspected
SlackJoined(resp) ==
    IF ~IsOk(resp) THEN Return(Fail("slack", SlackErrorOf(resp)))
    ELSE Await("message", [Request("message", accessToken) EXCEPT
                              !.target = locals.channel, !.media = content.media])

SlackJoinResponse ==
    /\ adapter = "slack"
    /\ pc = "join"
    /\ \E resp \in Responses : Step(resp, SlackJoined(resp), locals)

SlackPostedIgnoringOk(resp) ==
    IF ~IsOk(resp) THEN Return(Fail("slack", SlackErrorOf(resp)))
    ELSE Return(Success("slack", resp.id))

\* chat.postMessage settles: `ok` missing or false throws
\* response.data.error || 'Failed to post message'
SlackPosted(resp) ==
    IF ~IsOk(resp) THEN Return(Fail("slack", SlackErrorOf(resp)))
    ELSE IF resp.st = "rejected" THEN Return(Fail("slack", RejectionText))
    ELSE IF resp.st # "ok" THEN Return(Fail("slack", "Failed to post message"))
    ELSE Return(Success("slack", resp.id))

SlackMessageResponse ==
    /\ adapter = "slack"
    /\ pc = "message"
    /\ \E resp \in Responses \cup {OkStatus("ok"), Rejected} :
        Step(resp, SlackPosted(resp), locals)

NextSlack ==
    \/ SlackPost
    \/ SlackJoinResponse
    \/ SlackMessageResponse

(***************************************************************************)
(* Discord                                                                 *)
(***************************************************************************)
\* post(content, channelId), from entry to the message request; the bot token
\* is not tested
DiscordEntry(tok, c, channelId) ==
    IF ~Truthy(channelId)
    THEN Return(Fail("discord", "Discord posting requires a channelId."))
    ELSE Await("message", [Request("message", tok) EXCEPT
                              !.target = channelId, !.media = c.media])

\* const targetChannelId = channelId || this.defaultChannelId
DiscordPost ==
    /\ adapter = "discord"
    /\ pc = "idle"
    /\ \E c \in PostContents, channelId \in {Undefined, "chan0"} :
        LET targetChannelId == IF Truthy(channelId) THEN channelId ELSE anchor
        IN  /\ content' = c
            /\ locals' = [locals EXCEPT !.channel = targetChannelId]
            /\ Goto(DiscordEntry(accessToken, c, targetChannelId))
    /\ UNCHANGED <<adapter, accessToken, refreshToken, anchor, resps, depth, secondCall, lap>>
    /\ UNCHANGED pollVars
    /\ UNCHANGED shareVars

\* error.response?.data?.message || error.message || error
DiscordErrorOf(resp) ==
    CASE resp.status = HttpUnauthorized -> "message401"
      [] resp.status = 429 -> "message429"
      [] OTHER -> "Network Error"

DiscordSentNoCatch(resp) ==
    IF ~IsOk(resp) THEN Return(PostResult(Undefined, FALSE, Undefined, Undefined))
    ELSE Return(Success("discord", resp.id))

DiscordSent(resp) ==
    IF ~IsOk(resp) THEN Return(Fail("discord", DiscordErrorOf(resp)))
    ELSE Return(Success("discord", resp.id))

DiscordMessageResponse ==
    /\ adapter = "discord"
    /\ pc = "message"
    /\ \E resp \in Responses : Step(resp, DiscordSent(resp), locals)

NextDiscord ==
    \/ DiscordPost
    \/ DiscordMessageResponse

(***************************************************************************)
(* Telegram                                                                *)
(***************************************************************************)
\* the Bot API method chosen from the number and the kind of the media
TelegramMethod(c) ==
    IF c.media = <<>> THEN "sendMessage"
    ELSE IF Len(c.media) = 1
    THEN IF MatchesExtI(c.media[1], {"mp4", "mov", "avi"}) THEN "sendVideo" ELSE "sendPhoto"
    ELSE "sendMediaGroup"

\* post(content, chatId), from entry to the send request; the bot token is
\* not tested
TelegramEntry(tok, c, chatId) ==
    IF ~Truthy(chatId)
    THEN Return(Fail("telegram", "Telegram posting requires a chatId."))
    ELSE Await("send", [Request(TelegramMethod(c), tok) EXCEPT
                           !.target = chatId, !.media = c.media])

\* const targetChatId = chatId || this.chatId
TelegramPost ==
    /\ adapter = "telegram"
    /\ pc = "idle"
    /\ \E c \in PostContents, chatId \in {Undefined, "chan0"} :
        LET targetChatId == IF Truthy(chatId) THEN chatId ELSE anchor
        IN  /\ content' = c
            /\ locals' = [locals EXCEPT !.channel = targetChatId]
            /\ Goto(TelegramEntry(accessToken, c, targetChatId))
    /\ UNCHANGED <<adapter, accessToken, refreshToken, anchor, resps, depth, secondCall, lap>>
    /\ UNCHANGED pollVars
    /\ UNCHANGED shareVars

\* error.response?.data?.description || error.message || error
TelegramErrorOf(resp) ==
    CASE resp.status = HttpUnauthorized -> "description401"
      [] resp.status = 429 -> "description429"
      [] OTHER -> "Network Error"

\* response.data.description || 'Failed to send ...'
TelegramNotOk(method) ==
    CASE method = "sendMessage" -> "Failed to send message"
      [] method = "sendMediaGroup" -> "Failed to send media group"
      [] OTHER -> "Failed to send media"

\* the send request settles: `ok` missing or false throws
TelegramSent(resp, c) ==
    IF ~IsOk(resp) THEN Return(Fail("telegram", TelegramErrorOf(resp)))
    ELSE IF resp.st = "rejected" THEN Return(Fail("telegram", RejectionText))
    ELSE IF resp.st # "ok" THEN Return(Fail("telegram", TelegramNotOk(TelegramMethod(c))))
    ELSE Return(Success("telegram", resp.id))

TelegramSendResponse ==
    /\ adapter = "telegram"
    /\ pc = "send"
    /\ \E resp \in Responses \cup {OkStatus("ok"), Rejected} :
        Step(resp, TelegramSent(resp, content), locals)

NextTelegram ==
    \/ TelegramPost
    \/ TelegramSendResponse

(***************************************************************************)
(* One adapter instance, one post() call                                   *)
(***************************************************************************)
ShareIdle ==
    /\ config = {}
    /\ platforms = <<>>
    /\ sharePc = "idle"
    /\ platformsArg = Omitted
    /\ shareContent = [text |-> Undefined, media |-> <<>>]
    /\ targetPlatforms = <<>>
    /\ idx = 1
    /\ results = <<>>
    /\ postLog = <<>>
    /\ returned = <<>>

\* adapters whose constructor stores a refreshToken
RefreshAdapters == {"twitter", "linkedin", "youtube", "tiktok", "pinterest", "reddit"}

\* adapters whose constructor stores an identity anchor: pageId, accountId,
\* the OAuth 1.0a consumer, authorId, boardId, subreddit, userId, channelId,
\* chatId
AnchoredAdapters ==
    {"facebook", "instagram", "twitter", "linkedin", "pinterest", "reddit", "threads",
     "discord", "telegram"}

\* An adapter of the given set, constructed with any combination of the
\* optional credential fields it has, before post() is called.  Twitter's
\* constructor stores this.token only when it built this.oauth.
Constructed(names) ==
    /\ ShareIdle
    /\ adapter \in names
    /\ accessToken \in {Undefined, "tok0"}
    /\ refreshToken \in {Undefined, "ref0"}
    /\ anchor \in {Undefined, "anchor0"}
    /\ adapter \notin RefreshAdapters => refreshToken = Undefined
    /\ adapter \notin AnchoredAdapters => anchor = Undefined
    /\ (adapter = "twitter" /\ Truthy(accessToken)) => Truthy(anchor)
    /\ content = [text |-> Undefined, media |-> <<>>]
    /\ pc = "idle"
    /\ net = <<>>
    /\ resps = <<>>
    /\ ret = NoResult
    /\ depth = 0
    /\ status = Undefined
    /\ attempts = 0
    /\ polls = 0
    /\ locals = NoLocals
    /\ secondCall = FALSE
    /\ lap = FALSE

InitYouTube == Constructed({"youtube"})

SpecYouTube == InitYouTube /\ [][NextYouTube]_vars

Adapters ==
    {"facebook", "instagram", "twitter", "linkedin", "youtube", "tiktok",
     "pinterest", "reddit", "threads", "discord", "slack", "telegram"}

InitPost == Constructed(Adapters)

NextPost ==
    \/ NextFacebook
    \/ NextInstagram
    \/ NextInstagramStory
    \/ NextTwitter
    \/ NextLinkedIn
    \/ NextYouTube
    \/ NextTikTok
    \/ NextPinterest
    \/ NextReddit
    \/ NextThreads
    \/ NextDiscord
    \/ NextSlack
    \/ NextTelegram

SpecPost == InitPost /\ [][NextPost]_vars

\* A call has returned and the caller calls the instance again: the fields of
\* the instance stay, everything local to the call is new.
CallReturns ==
    /\ pc = "done"
    /\ ~secondCall
    /\ secondCall' = TRUE
    /\ lap' = lap
    /\ pc' = "idle"
    /\ content' = [text |-> Undefined, media |-> <<>>]
    /\ net' = <<>>
    /\ resps' = <<>>
    /\ ret' = NoResult
    /\ depth' = 0
    /\ status' = Undefined
    /\ attempts' = 0
    /\ polls' = 0
    /\ locals' = NoLocals
    /\ UNCHANGED <<adapter, accessToken, refreshToken, anchor>>
    /\ UNCHANGED shareVars

\* the adapters that register a job, poll its status and publish it
JobAdapters == {"instagram", "threads", "pinterest"}

\* an instance that holds its token: a first call can get as far as
\* registration
InitJobs ==
    /\ Constructed(JobAdapters)
    /\ Truthy(accessToken)

NextJobs ==
    \/ NextInstagram
    \/ NextThreads
    \/ NextPinterest
    \/ CallReturns

\* two successive calls on one instance of a polling adapter
SpecJobs == InitJobs /\ [][NextJobs]_vars

\* YouTube.post retries once more after `depth` has stopped counting: the
\* upload is answered 401, the refresh succeeds, post(content) is called again
\* and awaits the upload as before.
YouTubeRetriesOn ==
    /\ adapter = "youtube"
    /\ pc = "upload"
    /\ depth = MaxRetries
    /\ YouTubeUploaded(HttpError(HttpUnauthorized)).pc = "refresh"
    /\ YouTubeEntry(accessToken, content).pc = "upload"
    /\ lap' = ~lap
    /\ UNCHANGED <<adapter, accessToken, refreshToken, anchor, content, pc, net, resps,
                   ret, depth, locals, secondCall>>
    /\ UNCHANGED pollVars
    /\ UNCHANGED shareVars

\* Pinterest.post polls once more after `polls` has stopped counting: the
\* status is still not `succeeded` and not `failed`.
PinterestPollsOn ==
    /\ adapter = "pinterest"
    /\ pc = "poll"
    /\ polls = MaxPolls
    /\ PinterestPolled(OkStatus("processing")).pc = "poll"
    /\ lap' = ~lap
    /\ UNCHANGED <<adapter, accessToken, refreshToken, anchor, content, pc, net, resps,
                   ret, depth, locals, secondCall>>
    /\ UNCHANGED pollVars
    /\ UNCHANGED shareVars

\* the adapters whose post repeats requests: a retry or a status poll loop
LoopAdapters == {"youtube", "pinterest", "threads"}

InitLoops == Constructed(LoopAdapters)

\* an awaited request is answered
Responds ==
    \/ YouTubeUploadResponse
    \/ YouTubeRefreshResponse
    \/ YouTubeRetriesOn
    \/ PinterestRegisterResponse
    \/ PinterestUploadResponse
    \/ PinterestPollResponse
    \/ PinterestPollsOn
    \/ PinterestPinResponse
    \/ ThreadsMeResponse
    \/ ThreadsContainerResponse
    \/ ThreadsPollResponse
    \/ ThreadsPublishResponse

NextLoops ==
    \/ YouTubePost
    \/ PinterestPost
    \/ ThreadsPost
    \/ Responds

\* one post call in which every request is answered sooner or later, with an
\* answer of the platform's choice
SpecLoops == InitLoops /\ [][NextLoops]_vars /\ WF_vars(Responds)

(***************************************************************************)
(* Claims about the token refresh guard (YouTube.post)                     *)
(***************************************************************************)
\* C6: when the upload fails with 401 and a refresh token is held, one refresh
\* request follows; when that refresh succeeds the new token is stored and the
\* upload is retried with it; when the retried upload succeeds the call has
\* made exactly one refresh and two uploads and returns success:true.
C6_RefreshThenRetrySucceeds ==
    (adapter = "youtube" /\ Truthy(refreshToken) /\ Len(resps) >= 1
        /\ resps[1].status = HttpUnauthorized) =>
        /\ Len(net) >= 2
        /\ net[1].api = "upload"
        /\ net[2].api = "refresh"
        /\ Len(resps) = 1 => (pc = "refresh" /\ Len(net) = 2)
        /\ (Len(resps) >= 2 /\ IsOk(resps[2]) /\ Truthy(resps[2].token)) =>
               /\ Len(net) >= 3
               /\ net[3].api = "upload"
               /\ net[3].token = resps[2].token
               /\ net[3].token # net[1].token
               /\ net[3].media = net[1].media
               /\ Len(resps) = 2 =>
                      (pc = "upload" /\ Len(net) = 3 /\ accessToken = resps[2].token)
               /\ (Len(resps) >= 3 /\ IsOk(resps[3])) =>
                      /\ pc = "done"
                      /\ Len(resps) = 3
                      /\ Len(net) = 3
                      /\ Calls("refresh") = 1
                      /\ Calls("upload") = 2
                      /\ accessToken = resps[2].token
                      /\ ret = [platform |-> "youtube", success |-> TRUE,
                                postId |-> resps[3].id, error |-> Undefined]

C6_Witness ==
    /\ adapter = "youtube"
    /\ pc = "done"
    /\ Len(resps) = 3
    /\ resps[1].status = HttpUnauthorized
    /\ IsOk(resps[2])
    /\ IsOk(resps[3])
    /\ ret.success
    /\ ret.postId = "id1"
    /\ accessToken = "tok1"

\* C7: within one top-level post call there is at most one refresh request
\* and at most two upload attempts, whatever the upstream answers.
C7_AtMostOneRefreshAndTwoAttempts ==
    adapter = "youtube" => (Calls("refresh") <= 1 /\ Calls("upload") <= 2)

\* C8: when an authorization failure occurred and a refresh request failed,
\* post has returned success:false after no more than one refresh request and
\* without retrying the upload.
C8_RefreshFailureEndsCall ==
    (adapter = "youtube"
        /\ \E i \in 1..Len(resps) : net[i].api = "refresh" /\ ~IsOk(resps[i])) =>
        /\ pc = "done"
        /\ ~ret.success
        /\ Calls("refresh") <= 1
        /\ Calls("upload") <= 1

\* C9: a refresh request is made only in answer to a 401 on the upload while a
\* refresh token is held; any other failure of the upload, and any failure
\* without a refresh token, is returned at once as the result.
C9_RefreshOnlyOnAuthFailure ==
    adapter = "youtube" =>
        /\ \A i \in 1..Len(net) :
               net[i].api = "refresh" =>
                   /\ i > 1
                   /\ net[i - 1].api = "upload"
                   /\ resps[i - 1].status = HttpUnauthorized
                   /\ Truthy(refreshToken)
                   /\ net[i].token = refreshToken
        /\ \A i \in 1..Len(resps) :
               (net[i].api = "upload" /\ ~IsOk(resps[i])
                   /\ (resps[i].status # HttpUnauthorized \/ ~Truthy(refreshToken))) =>
                   /\ i = Len(net)
                   /\ pc = "done"
                   /\ ret = [platform |-> "youtube", success |-> FALSE,
                             postId |-> Undefined, error |-> ErrorOf(resps[i])]
        /\ (pc = "done" /\ net = <<>>) => ~ret.success

C9_Witness ==
    /\ adapter = "youtube"
    /\ pc = "done"
    /\ Truthy(refreshToken)
    /\ Len(resps) = 1
    /\ resps[1].status = 429
    /\ Calls("refresh") = 0
    /\ ret.error = "body429"

(***************************************************************************)
(* Claims about every adapter's post                                       *)
(***************************************************************************)
\* adapters that authenticate their requests with an access token
AccessTokenAdapters == Adapters \ {"discord", "telegram"}

\* C5: an adapter constructed without an access token makes no network call
\* during post, and post returns success:false at once.
C5_NoTokenNoNetworkCall ==
    (adapter \in AccessTokenAdapters /\ ~Truthy(accessToken)
        /\ Calls("refresh") = 0) =>
        /\ net = <<>>
        /\ pc \in {"idle", "done"}
        /\ pc = "done" => ~ret.success

\* C10: in every adapter that stores a refresh token, a 401 answer to a
\* request that carried the access token, received while a refresh token is
\* held, is followed by a refresh request and not by an immediate return.
C10_EveryRefreshHolderIsGuarded ==
    (adapter \in RefreshAdapters /\ Truthy(refreshToken)) =>
        \A i \in 1..Len(resps) :
            (resps[i].status = HttpUnauthorized /\ net[i].api # "refresh"
                /\ Truthy(net[i].token)) =>
                /\ Len(net) > i
                /\ net[i + 1].api = "refresh"

(***************************************************************************)
(* Claims about the status poll loops                                      *)
(***************************************************************************)
\* the calls that reach a status poll loop: Instagram.post,
\* Instagram.postStory, Threads.post and the video flow of Pinterest.post
PollingAdapters == {"instagram", "threads", "pinterest"}

Polled == adapter \in PollingAdapters /\ polls > 0

\* the status value a loop starts from and waits on
InProgressStatus == IF adapter = "pinterest" THEN "processing" ELSE "IN_PROGRESS"

\* the request a loop leads to
PublishApi == IF adapter = "pinterest" THEN "pin" ELSE "publish"

\* the number of polls after which the loop gives up, for the loops that
\* count their attempts; Pinterest's loop has no counter
AttemptBounds ==
    CASE adapter = "instagram" /\ locals.op = "post" -> {InstagramMaxAttempts}
      [] adapter = "instagram" /\ locals.op = "postStory" -> {InstagramStoryMaxAttempts}
      [] adapter = "threads" -> {ThreadsMaxAttempts + 1}
      [] OTHER -> {}

\* the error text of a loop that gave up, where the loop has one
TimeoutError ==
    CASE adapter = "instagram" /\ locals.op = "post" -> "Media processing timed out"
      [] adapter = "instagram" /\ locals.op = "postStory" -> "Story container timed out."
      [] adapter = "threads" -> "Media processing timed out"
      [] OTHER -> Undefined

LastResponse == resps[Len(resps)]

\* C11: a poll loop is bounded: every poll after the first is counted by the
\* loop's attempt counter, the counter never exceeds the loop's bound, and a
\* call that left the loop with the status still in progress returned the
\* timeout failure, after exactly the bound's polls and without a publish
\* request.
C11_StuckPollLoopTimesOut ==
    Polled =>
        /\ polls <= attempts + 1
        /\ \E bound \in AttemptBounds :
            /\ attempts <= bound
            /\ (pc = "done" /\ status = InProgressStatus /\ IsOk(LastResponse)) =>
                   /\ ~ret.success
                   /\ ret.error = TimeoutError
                   /\ polls = bound
                   /\ Calls(PublishApi) = 0

\* the status values on which a loop is meant to go on to publish
SuccessStatuses ==
    CASE adapter = "instagram" -> {"FINISHED", "READY"}
      [] adapter = "threads" -> {"FINISHED"}
      [] adapter = "pinterest" -> {"succeeded"}

\* C12: in a call that polled, the publish request is made only when the last
\* polled status is the terminal-success status.
C12_PublishOnlyFromTerminalSuccess ==
    (Polled /\ Calls(PublishApi) > 0) => status \in SuccessStatuses

\* the polls the loop's own attempt counter accounts for once the loop is
\* left: Instagram.post and Threads.post count every answer, postStory counts
\* the in-progress answers only, Pinterest.post counts nothing
CountedPolls ==
    CASE adapter = "instagram" /\ locals.op = "postStory" -> attempts + 1
      [] adapter = "pinterest" -> polls
      [] OTHER -> attempts

\* C13: once a poll is answered with the terminal-success status, after k
\* in-progress answers, the loop is left at once: k+1 polls were issued, the
\* publish request is the next and last request and is made exactly once, and
\* no poll follows.
C13_PollsThenOnePublish ==
    (Polled /\ status \in SuccessStatuses) =>
        /\ pc \in {PublishApi, "done"}
        /\ polls = CountedPolls
        /\ Calls(PublishApi) = 1
        /\ net[Len(net)].api = PublishApi
        /\ net[Len(net) - 1].api = "poll"
        /\ pc = "done" /\ IsOk(LastResponse) => ret.success

C13_Witness ==
    /\ adapter = "instagram"
    /\ locals.op = "post"
    /\ polls = 3
    /\ attempts = 3
    /\ status = "READY"
    /\ pc = "publish"
    /\ Calls("publish") = 1

\* the status value by which the platform reports that processing failed
ErrorStatus == IF adapter = "pinterest" THEN "failed" ELSE "ERROR"

\* the error text returned for it
ProcessingError ==
    CASE adapter = "instagram" /\ locals.op = "post" -> "Media container status is ERROR"
      [] adapter = "instagram" /\ locals.op = "postStory" -> "Story container creation failed."
      [] adapter = "threads" -> "Media processing failed"
      [] adapter = "pinterest" -> "Video upload failed processing."

\* a poll was answered with the processing-error status
ProcessingFailed == Polled /\ status = ErrorStatus

\* C14 (as stated): when a poll is answered with the processing-error status
\* the call has returned success:false, no further poll and no publish request
\* is made, and fewer polls than the loop's bound were issued.
C14_ErrorStopsBelowTheBound ==
    ProcessingFailed =>
        /\ pc = "done"
        /\ ~ret.success
        /\ Calls(PublishApi) = 0
        /\ \A bound \in AttemptBounds : polls < bound

\* C14 (amended): when a poll is answered with the processing-error status
\* the call has returned success:false with the processing-failure text, no
\* further poll and no publish request is made, and no more polls than the
\* loop's bound were issued: the error may be the answer to the last poll the
\* bound permits.
C14_ErrorStopsPolling ==
    ProcessingFailed =>
        /\ pc = "done"
        /\ ~ret.success
        /\ ret.error = ProcessingError
        /\ Calls(PublishApi) = 0
        /\ net[Len(net)].api = "poll"
        /\ \A bound \in AttemptBounds : polls <= bound

C14_Witness ==
    /\ adapter = "instagram"
    /\ locals.op = "post"
    /\ status = "ERROR"
    /\ polls = 2
    /\ pc = "done"
    /\ ret.error = "Media container status is ERROR"

\* the call failed by a decision of its poll loop: the last poll was answered,
\* and the call returned without a publish request
LoopFailed ==
    /\ Polled
    /\ pc = "done"
    /\ Calls(PublishApi) = 0
    /\ IsOk(LastResponse)

\* C15: a failure decided by a poll loop is either the timeout or the
\* processing failure, never both: it carries the processing-failure text
\* exactly when the processing-error status was polled, the timeout text
\* otherwise, and the two texts of a loop differ.
C15_TimeoutAndProcessingFailureDiffer ==
    Polled =>
        /\ TimeoutError # ProcessingError
        /\ LoopFailed =>
               /\ ~ret.success
               /\ ret.error \in {TimeoutError, ProcessingError}
               /\ ret.error = ProcessingError <=> status = ErrorStatus
               /\ ret.error = TimeoutError <=> status # ErrorStatus
               /\ ret.error = TimeoutError => \E bound \in AttemptBounds : polls = bound

C15_Witness ==
    /\ adapter = "threads"
    /\ LoopFailed
    /\ status = "IN_PROGRESS"
    /\ polls = ThreadsMaxAttempts + 1
    /\ ret.error = "Media processing timed out"

(***************************************************************************)
(* Claims about the register, upload, poll, publish pipeline               *)
(***************************************************************************)
\* the request by which a post call registers its job
RegisterApi ==
    CASE adapter \in {"instagram", "threads"} -> "container"
      [] adapter = "pinterest" -> "register"
      [] adapter = "tiktok" -> "init"
      [] OTHER -> Undefined

\* a post call that registered a job with its platform
Registered == locals.op = "post" /\ Calls(RegisterApi) > 0

\* position of a request in the pipeline; Threads' user lookup precedes it
Stage(api) ==
    CASE api = "me" -> 0
      [] api = RegisterApi -> 1
      [] api = "upload" -> 2
      [] api = "poll" -> 3
      [] api = PublishApi -> 4

\* C16: a call that registered a job issues its requests in the order
\* register, upload, poll, publish, each at most once in `net` (which logs a
\* loop's first poll), none before its predecessors; and it returns
\* success:true only after a poll was answered with the terminal-success
\* status and the publish request succeeded.
C16_PipelineOrder ==
    Registered =>
        /\ \A i, j \in 1..Len(net) : i < j => Stage(net[i].api) < Stage(net[j].api)
        /\ Calls(PublishApi) > 0 => Calls("poll") > 0
        /\ (Calls("poll") > 0 /\ adapter = "pinterest") => Calls("upload") > 0
        /\ (pc = "done" /\ ret.success) =>
               /\ Polled
               /\ status \in SuccessStatuses
               /\ Calls(PublishApi) = 1
               /\ net[Len(net)].api = PublishApi
               /\ IsOk(LastResponse)

\* the error a call returns when its publish request fails with `resp`
PublishErrorOf(resp) ==
    CASE adapter = "instagram" /\ locals.op = "postStory" -> StoryErrorOf(resp)
      [] adapter = "threads" -> ThreadsErrorOf(resp)
      [] OTHER -> ErrorOf(resp)

\* C17: a polling adapter makes its publish request at most once in a call,
\* as the last request of the call; once it is answered the call has ended,
\* and a failed publish is the call's result, success:false with the error of
\* that failure.
C17_PublishNeverRetried ==
    (adapter \in PollingAdapters /\ Calls(PublishApi) > 0) =>
        /\ Calls(PublishApi) = 1
        /\ net[Len(net)].api = PublishApi
        /\ pc \in {PublishApi, "done"}
        /\ Len(resps) = Len(net) <=> pc = "done"
        /\ (pc = "done" /\ ~IsOk(LastResponse)) =>
               /\ ~ret.success
               /\ ret.postId = Undefined
               /\ ret.error = PublishErrorOf(LastResponse)

C17_Witness ==
    /\ adapter = "threads"
    /\ Polled
    /\ Calls("publish") = 1
    /\ pc = "done"
    /\ LastResponse.status = 429
    /\ ret.error = "message429"

(***************************************************************************)
(* Claims about the job identifier                                         *)
(***************************************************************************)
\* position in `net` of the call's registration request
Registration == CHOOSE i \in 1..Len(net) : net[i].api = RegisterApi

\* C18: every poll and publish request of a call carries the identifier that
\* the registration of that same call returned, and in a later call on the
\* instance none carries the identifier of the earlier call.
C18_JobIdIsSoleHandle ==
    adapter \in JobAdapters =>
        \A i \in 1..Len(net) :
            (net[i].api \in {"poll", PublishApi} /\ Calls(RegisterApi) > 0) =>
                /\ Registration < i
                /\ IsOk(resps[Registration])
                /\ net[i].job = resps[Registration].id
                /\ locals.job = resps[Registration].id
                /\ secondCall => net[i].job # JobId(FALSE)

C18_Witness ==
    /\ adapter = "instagram"
    /\ secondCall
    /\ pc = "done"
    /\ ret.success
    /\ polls = 2
    /\ net[Len(net)].api = "publish"
    /\ net[Len(net)].job = "id2"

(***************************************************************************)
(* Claims about validation                                                 *)
(***************************************************************************)
\* the failures that post returns from a check of its own configuration or
\* of the content, as opposed to a failure of a request
ValidationErrors ==
    { "YouTube posting requires accessToken.",
      "YouTube requires a video file.",
      "File does not appear to be a video.",
      "TikTok posting requires accessToken.",
      "TikTok requires a video URL.",
      "TikTok integration currently only supports public URLs (PULL_FROM_URL).",
      "Reddit posting requires accessToken.",
      "Reddit posting requires a defaultSubreddit (configure in SocialConfig).",
      "LinkedIn posting requires accessToken and authorId. Authenticate first.",
      "Twitter posting requires OAuth 1.0a credentials (apiKey, apiSecret, accessToken, accessSecret).",
      "Pinterest posting requires accessToken.",
      "Pinterest posting requires a boardId (configure in SocialConfig).",
      "Pinterest requires media (image URL or video file).",
      "Pinterest only supports image URLs (or local video files).",
      "No target Page ID found for Facebook post.",
      "Facebook Graph API (Axios implementation) requires public URLs for media.",
      "No content provided for Facebook post",
      "Instagram posting requires accessToken and accountId. Authenticate first.",
      "Instagram requires media (image or video)",
      "Instagram Graph API requires a public URL for media.",
      "Threads requires public URLs for media.",
      "Threads posting requires accessToken.",
      "Threads posting requires userId.",
      "Slack posting requires accessToken.",
      "Discord posting requires a channelId.",
      "Slack posting requires a channelId.",
      "Telegram posting requires a chatId." }

\* post has returned a precondition or validation failure (depth = 0: the
\* requests in `net` are those of this call, not of a call that retried)
ValidationFailed ==
    /\ pc = "done"
    /\ locals.op = "post"
    /\ depth = 0
    /\ ~ret.success
    /\ ret.error \in ValidationErrors

\* C19: whenever post returns a precondition or validation failure, no
\* network call was made during that post call.
C19_ValidationBeforeFirstCall == ValidationFailed => net = <<>>

\* the adapters that hand the platform a URL to fetch the media from
UrlAdapters == {"instagram", "facebook", "tiktok", "threads", "pinterest"}

\* the requests that register, upload or publish media
MediaApis == {"container", "photos", "feed", "init", "register", "upload", "pin", "poll", "publish"}

\* the call was given a path-form locator where the adapter needs a URL
PathForm ==
    /\ adapter \in UrlAdapters
    /\ pc # "idle"
    /\ content.media # <<>>
    /\ ~StartsWithHttp(content.media[1])
    /\ adapter = "pinterest" => ~PinterestIsVideo(content.media[1])

\* C20: an adapter that requires a public URL for media never issues an
\* upload or registration request for a path-form locator, and the call ends
\* with success:false, from post with a validation error.
C20_PathFormRejected ==
    PathForm =>
        /\ \A i \in 1..Len(net) : net[i].api \notin MediaApis
        /\ pc = "done" =>
            /\ ~ret.success
            /\ locals.op = "post" => ret.error \in ValidationErrors

C20_Witness ==
    /\ PathForm
    /\ adapter = "threads"
    /\ pc = "done"
    /\ Len(net) = 1
    /\ ret.error = "Threads requires public URLs for media."

\* the adapters whose platform takes no post without media
MediaAdapters == {"instagram", "youtube", "tiktok", "pinterest"}

\* post was called with absent or empty media
NoMedia ==
    /\ adapter \in MediaAdapters
    /\ locals.op = "post"
    /\ pc # "idle"
    /\ content.media = <<>>

\* C21: an adapter whose platform mandates media answers a request without
\* media with success:false, a validation failure, and issues no request.
C21_MissingMediaRejected ==
    NoMedia =>
        /\ net = <<>>
        /\ pc = "done"
        /\ ~ret.success
        /\ ret.error \in ValidationErrors

C21_Witness ==
    /\ NoMedia
    /\ adapter = "youtube"
    /\ Truthy(accessToken)
    /\ pc = "done"
    /\ ret.error = "YouTube requires a video file."

(***************************************************************************)
(* Claims about the result of post                                         *)
(***************************************************************************)
\* post has settled
Settled == locals.op = "post" /\ pc = "done"

\* C22: post settles by returning a PostResult that names its adapter; a call
\* that ends at a credential or field check without any request, and a call
\* whose last request the platform rejected, return success:false, and every
\* success:false carries a diagnostic error.
C22_FailuresAreReturned ==
    Settled =>
        /\ ret.platform = adapter
        /\ ret.success \in BOOLEAN
        /\ ~ret.success => Truthy(ret.error)
        /\ ret.success => ~Truthy(ret.error)
        /\ net = <<>> => ~ret.success
        /\ (resps # <<>> /\ ~IsOk(LastResponse)) => ~ret.success

C22_Witness ==
    /\ Settled
    /\ adapter = "discord"
    /\ ~Truthy(accessToken)
    /\ resps # <<>>
    /\ LastResponse = HttpError(HttpUnauthorized)
    /\ ret = Fail("discord", "message401")

(***************************************************************************)
(* Claims about the dispatch loop                                          *)
(***************************************************************************)
\* the posts that share has started and that have not settled
InFlight == {i \in 1..Len(postLog) : ~postLog[i].settled}

\* C23: share runs its targets one after the other: at most one post is in
\* flight, it is the one started last, and it is in flight exactly while share
\* awaits it, so no post starts before the one before it has settled.
C23_OnePostInFlight ==
    /\ Cardinality(InFlight) <= 1
    /\ InFlight \subseteq {Len(postLog)}
    /\ InFlight # {} <=> sharePc = "await"
    /\ \A i \in 1..Len(postLog) : postLog[i].target = targetPlatforms[i]

C23_Witness ==
    /\ Len(postLog) = 2
    /\ postLog[1].settled
    /\ postLog[1].target # postLog[2].target
    /\ InFlight = {2}

\* C24: share invokes the post of each target occurrence exactly once, whether
\* it succeeds, fails or throws, on the adapter the registry holds for it, and
\* the registry stays as the constructor built it.
C24_OnePostPerOccurrence ==
    /\ platforms = Construct(config, 1)
    /\ Len(postLog) = (IF sharePc = "await" THEN idx ELSE idx - 1)
    /\ Len(postLog) <= Len(targetPlatforms)
    /\ sharePc = "returned" => Len(postLog) = Len(targetPlatforms)
    /\ \A i \in 1..Len(postLog) :
        /\ postLog[i].target = targetPlatforms[i]
        /\ postLog[i].adapter = getPlatform(platforms, targetPlatforms[i])

C24_Witness ==
    /\ sharePc = "returned"
    /\ Len(targetPlatforms) = 2
    /\ targetPlatforms[1] = targetPlatforms[2]
    /\ postLog[1].outcome.kind = "throw"
    /\ postLog[2].outcome.kind = "return"
    /\ ~postLog[2].outcome.result.success

(***************************************************************************)
(* Claims about the stored credential                                      *)
(***************************************************************************)
\* the credential an adapter instance stores
Credential == <<accessToken, refreshToken, anchor>>

\* C25: during a post call the stored credential changes only when the
\* refresh request that the guard issued settles; every other step of post
\* leaves it as it was.
C25_OnlyRefreshChangesCredential ==
    [][Credential' # Credential => pc = "refresh"]_vars

(***************************************************************************)
(* Claims about the registry                                               *)
(***************************************************************************)
\* names a caller may ask for: every platform and one that does not exist
Lookups == PlatformNames \cup {"unknownPlatform"}

\* C26: at every moment, before, during and after share calls, the registry
\* holds one adapter per configured key and nothing else, and getPlatform
\* returns the adapter named like the key, or undefined for any other name.
C26_RegistryMatchesConfig ==
    /\ Len(platforms) = Cardinality(config)
    /\ \A name \in Lookups :
        /\ Has(platforms, name) <=> name \in config
        /\ getPlatform(platforms, name) = (IF name \in config THEN name ELSE Undefined)

C26_Witness ==
    /\ sharePc = "returned"
    /\ Len(returned) = 2
    /\ config = {"facebook", "telegram"}
    /\ getPlatform(platforms, "facebook") = "facebook"
    /\ getPlatform(platforms, "telegram") = "telegram"
    /\ getPlatform(platforms, "twitter") = Undefined

(***************************************************************************)
(* Claims about the request                                                *)
(***************************************************************************)
\* C27: every post of one share call is handed the content the caller gave,
\* as it is when share returns: no target sees another request than the
\* others, and none has changed it.
C27_SameContentForEveryTarget ==
    \A i \in 1..Len(postLog) :
        /\ postLog[i].content = shareContent
        /\ postLog[i].content \in ShareContents

C27_Witness ==
    /\ sharePc = "returned"
    /\ Len(postLog) = 2
    /\ postLog[1].target # postLog[2].target
    /\ postLog[1].outcome.kind = "throw"
    /\ shareContent.media # <<>>
    /\ postLog[2].content = shareContent

\* what share reports for a target whose post settled with the given outcome
Reported(name, outcome) ==
    IF outcome.kind = "return" THEN outcome.result
    ELSE FailureFor(name, outcome.thrown)

\* C28: the result share holds for a target is determined by that target and
\* by what its own post did, whatever targets were processed before it and
\* however they ended: two occurrences whose posts ended alike have equal
\* results, and a result is not touched once pushed.
C28_ResultDependsOnOwnPostOnly ==
    /\ Len(results) = Cardinality({i \in 1..Len(postLog) : postLog[i].settled})
    /\ \A i \in 1..Len(results) :
        /\ results[i] = Reported(postLog[i].target, postLog[i].outcome)
        /\ \A j \in 1..Len(results) :
            (postLog[i].target = postLog[j].target /\ postLog[i].outcome = postLog[j].outcome)
                => results[i] = results[j]

C28_Witness ==
    /\ Len(results) = 2
    /\ postLog[1].target # postLog[2].target
    /\ postLog[1].outcome.kind = "throw"
    /\ results[2] = PostResult(postLog[2].target, TRUE, "id1", Undefined)

(***************************************************************************)
(* Claims about termination                                                *)
(***************************************************************************)
\* post is waiting for the answer to a request
Awaiting == pc \notin {"idle", "done"}

\* C29: when every request is answered sooner or later, every post call
\* returns: no poll loop and no retry goes on forever.
C29_EveryPostReturns == Awaiting ~> (pc = "done")

(***************************************************************************)
(* Claims about the Pinterest video cover                                  *)
(***************************************************************************)
\* the call publishes a video: its pin request refers to an uploaded media id
VideoPins ==
    {i \in 1..Len(net) : net[i].api = "pin" /\ PinterestIsVideo(content.media[1])}

\* C30: the pin request of a video always carries one cover image: the
\* second media locator when the caller gave one, and otherwise the fixed
\* placeholder, the same in every call.
C30_VideoPinCarriesCover ==
    adapter = "pinterest" =>
        \A i \in VideoPins :
            /\ Len(net[i].media) = 1
            /\ Len(content.media) >= 2 => net[i].media[1] = content.media[2]
            /\ Len(content.media) < 2 => net[i].media[1] = Loc(TRUE, "png")

C30_Witness ==
    /\ adapter = "pinterest"
    /\ secondCall
    /\ pc = "done"
    /\ ret.success
    /\ Len(content.media) = 1
    /\ VideoPins # {}
    /\ net[Len(net)].media = <<Placeholder>>

(***************************************************************************)
(* Claims about the attempt bounds                                         *)
(***************************************************************************)
\* Instagram.post is past its container request
InstagramPolling == adapter = "instagram" /\ locals.op = "post" /\ Calls("container") > 0

\* C31: Instagram.post issues at most 30 status polls; when the 30th answer
\* still is none of FINISHED, READY and ERROR, the call ends there with the
\* timeout failure, without another poll and without a publish request.
C31_InstagramPollsAtMostThirty ==
    InstagramPolling =>
        /\ polls <= 30
        /\ attempts <= polls
        /\ (attempts = 30 /\ status \notin {"FINISHED", "READY", "ERROR"}) =>
            /\ pc = "done"
            /\ ret = Fail("instagram", "Media processing timed out")
            /\ Calls("publish") = 0

C31_Witness ==
    /\ InstagramPolling
    /\ polls = 30
    /\ attempts = 30
    /\ status = "IN_PROGRESS"
    /\ pc = "done"
    /\ ret.error = "Media processing timed out"

\* Threads.post returned its timeout failure
ThreadsTimedOut ==
    /\ adapter = "threads"
    /\ pc = "done"
    /\ ret = Fail("threads", "Media processing timed out")

\* C32: Threads.post tests `attempts > 10` before each poll, so it never
\* issues more than 11 status polls, and a call that ends with the timeout
\* failure has issued exactly 11, each answered with a status that is neither
\* FINISHED nor ERROR.
C32_ThreadsTimesOutAfterElevenPolls ==
    adapter = "threads" =>
        /\ polls <= 11
        /\ ThreadsTimedOut =>
            /\ polls = 11
            /\ attempts = 11
            /\ status \notin {"FINISHED", "ERROR"}
            /\ Calls("publish") = 0

C32_Witness ==
    /\ ThreadsTimedOut
    /\ polls = 11
    /\ status = "IN_PROGRESS"

\* the last answered poll of Instagram.post or Threads.post carried a status
\* that is neither the success status nor ERROR
OtherStatus ==
    /\ adapter \in {"instagram", "threads"}
    /\ locals.op = "post"
    /\ attempts > 0
    /\ status \notin SuccessStatuses \cup {"ERROR"}

\* C33: such a status is treated like IN_PROGRESS: while the attempt bound is
\* not reached the next poll is issued, at the bound the call returns the
\* timeout failure; no publish request is made and the processing failure is
\* never reported (a call can also end because a poll request itself failed).
C33_OtherStatusKeepsPolling ==
    OtherStatus =>
        /\ Calls("publish") = 0
        /\ pc \in {"poll", "done"}
        /\ pc = "poll" => attempts \notin AttemptBounds
        /\ pc = "done" =>
            /\ ~ret.success
            /\ ret.error # ProcessingError
            /\ IsOk(LastResponse) =>
                /\ ret.error = TimeoutError
                /\ attempts \in AttemptBounds

C33_Witness ==
    /\ OtherStatus
    /\ adapter = "threads"
    /\ status = "EXPIRED"
    /\ pc = "done"
    /\ ret.error = "Media processing timed out"

(***************************************************************************)
(* Claims about the media kind                                             *)
(***************************************************************************)
\* the adapters that infer the media kind from the extension
KindAdapters == {"instagram", "pinterest", "telegram", "threads"}

\* the video extensions each of them recognises
VideoExtensions ==
    CASE adapter = "instagram" -> {"mp4", "mov"}
      [] adapter = "pinterest" -> {"mp4", "mov", "m4v"}
      [] adapter = "telegram" -> {"mp4", "mov", "avi"}
      [] adapter = "threads" -> {"mp4"}

\* the call took the video path / the image path for its first locator
ChoseVideo ==
    \E i \in 1..Len(net) :
        \/ net[i].api = "container" /\ net[i].job = "VIDEO"
        \/ net[i].api \in {"register", "sendVideo"}

ChoseImage ==
    \E i \in 1..Len(net) :
        \/ net[i].api = "container" /\ net[i].job = "IMAGE"
        \/ net[i].api = "pin" /\ Calls("register") = 0
        \/ net[i].api = "sendPhoto"

\* C34: the video path is taken exactly when the first locator's extension
\* is one of the adapter's video extensions, and the image path for every
\* other locator.
C34_KindFollowsExtension ==
    (adapter \in KindAdapters /\ locals.op = "post" /\ content.media # <<>>) =>
        /\ ChoseVideo => Lower(content.media[1].ext) \in VideoExtensions
        /\ ChoseImage => Lower(content.media[1].ext) \notin VideoExtensions

(***************************************************************************)
(* Claims about rejections in the response body                            *)
(***************************************************************************)
\* the adapters whose platform reports a rejection in a 200 answer
BodyRejectors == {"slack", "telegram", "reddit"}

\* the last request of the call was answered 200 with a rejection in the body
RejectedInBody ==
    /\ adapter \in BodyRejectors
    /\ resps # <<>>
    /\ Len(resps) = Len(net)
    /\ IsOk(LastResponse)
    /\ LastResponse.st = (IF adapter = "reddit" THEN "errors" ELSE "rejected")

SlackViaShare ==
    /\ adapter = "slack"
    /\ pc # "idle"
    /\ locals.channel = Undefined

\* C36 as stated: every dispatch to Slack through share returns success:false
\* with 'Slack posting requires a channelId.' and no network call, whatever the
\* credentials and content.
C36_SlackViaShareNeedsChannel ==
    SlackViaShare =>
        /\ pc = "done"
        /\ net = <<>>
        /\ ret = Fail("slack", "Slack posting requires a channelId.")

\* C36 amended: every dispatch to Slack through share returns success:false with
\* no network call; the error is 'Slack posting requires a channelId.' when the
\* adapter has an access token and 'Slack posting requires accessToken.' when
\* it has none.
C36_SlackViaShareFails ==
    SlackViaShare =>
        /\ pc = "done"
        /\ net = <<>>
        /\ ret = Fail("slack", IF Truthy(accessToken)
                               THEN "Slack posting requires a channelId."
                               ELSE "Slack posting requires accessToken.")

C36_Witness ==
    /\ SlackViaShare
    /\ Truthy(accessToken)
    /\ content.media # <<>>
    /\ ret = Fail("slack", "Slack posting requires a channelId.")

(***************************************************************************)
(* Claims about repeated targets                                           *)
(***************************************************************************)
\* the positions at which name occurs in a list
Occurrences(list, name) == {i \in 1..Len(list) : list[i] = name}

\* the explicit target list with the unconfigured names left out
Named == SelectSeq(platformsArg.list, LAMBDA p : p \in config)

\* C37: share does not de-duplicate the explicit target list: a configured
\* platform named n times has its post invoked n times and contributes n
\* results, at the positions of its occurrences.
C37_RepeatedTargetsRepeat ==
    (sharePc = "returned" /\ platformsArg.given) =>
        \A p \in config :
            /\ {i \in 1..Len(postLog) : postLog[i].target = p} = Occurrences(Named, p)
            /\ {i \in 1..Len(returned) : returned[i].platform = p} = Occurrences(Named, p)
            /\ Cardinality(Occurrences(Named, p)) =
                   Cardinality(Occurrences(platformsArg.list, p))

C37_Witness ==
    /\ sharePc = "returned"
    /\ platformsArg.given
    /\ Len(platformsArg.list) = 2
    /\ platformsArg.list[1] = platformsArg.list[2]
    /\ platformsArg.list[1] \in config
    /\ Len(postLog) = 2
    /\ Len(returned) = 2
    /\ returned[1].success
    /\ ~returned[2].success

(***************************************************************************)
(* Claims about the shape of a PostResult                                  *)
(***************************************************************************)
\* the post id the final response of the call carries
FinalPostId ==
    IF adapter = "linkedin" THEN LinkedInPostId(LastResponse) ELSE LastResponse.id

NoTargetPage == "No target Page ID found for Facebook post."

\* the pages the listing of this call answered with
ListedPages == resps[1].pages

\* the accounts request has settled
Listed == adapter = "facebook" /\ resps # <<>>

\* the listing succeeded with a non-empty list that does not contain the
\* configured pageId, or no pageId is configured
ListedWithoutTarget ==
    /\ Listed
    /\ IsOk(resps[1])
    /\ ListedPages # <<>>
    /\ ~Truthy(anchor) \/ \A i \in 1..Len(ListedPages) : ListedPages[i].id # anchor

\* the call goes on with this page id and this token
Targets(pageId, tok) ==
    /\ locals.pageId = pageId
    /\ locals.pageToken = tok
    /\ \A i \in 2..Len(net) : net[i].target = pageId /\ net[i].token = tok

RequestsTo(api) == {i \in 1..Len(net) : net[i].api = api}

\* position of the k-th upload request
NthUpload(k) ==
    CHOOSE i \in RequestsTo("upload") :
        Cardinality({j \in RequestsTo("upload") : j <= i}) = k

Uploads == Cardinality(RequestsTo("upload"))

\* C40: Twitter.post uploads the media locators one at a time in request
\* order, creates the tweet only after every upload succeeded, attaches the
\* media ids in the order of the locators, and creates no tweet if any upload
\* fails.
C40_TweetAfterOrderedUploads ==
    (adapter = "twitter" /\ pc # "idle") =>
        /\ Len(net) <= Len(resps) + 1
        /\ Uploads <= Len(content.media)
        /\ \A k \in 1..Uploads :
            /\ net[NthUpload(k)].media = <<content.media[k]>>
            /\ k > 1 => /\ NthUpload(k - 1) < NthUpload(k)
                        /\ IsOk(resps[NthUpload(k - 1)])
        /\ \A t \in RequestsTo("tweet") :
            /\ t = Len(net)
            /\ Uploads = Len(content.media)
            /\ Len(net[t].ids) = Len(content.media)
            /\ \A k \in 1..Uploads :
                /\ NthUpload(k) < t
                /\ IsOk(resps[NthUpload(k)])
                /\ net[t].ids[k] = resps[NthUpload(k)].id
        /\ (\E i \in 1..Len(resps) : net[i].api \in {"upload", "download"} /\ ~IsOk(resps[i])) =>
            /\ RequestsTo("tweet") = {}
            /\ pc = "done"
            /\ ~ret.success

C40_Witness ==
    /\ adapter = "twitter"
    /\ pc = "done"
    /\ Len(content.media) = 2
    /\ content.media[1] # content.media[2]
    /\ Uploads = 2
    /\ RequestsTo("tweet") # {}
    /\ net[Len(net)].ids = <<"id2", "id1">>
    /\ ret.success

====
